---- MODULE Spec2Model ----
(***************************************************************************)
(* Order lifecycle and cart-to-order conversion of the restaurant backend  *)
(* (app/routers/orders.py, app/routers/cart.py, app/routers/menu_items,    *)
(* app/models, app/schemas).                                               *)
(*                                                                         *)
(* Money is an integer number of thousandths (1000 = 1.00), so that a      *)
(* Decimal with more than two decimal places is representable.             *)
(*                                                                         *)
(* A request is served by a process.  The step that receives a request     *)
(* runs the handler up to its first database write; each later `await` of  *)
(* a write is a step of its own; a finished request stays visible in       *)
(* req[p] (pc = "done", with the response) until the process returns.      *)
(* Under Spec and CreateSpec one process serves the requests, so every     *)
(* request runs to completion before the next starts.                      *)
(*                                                                         *)
(* datetime.utcnow() is a clock that advances with every call.             *)
(***************************************************************************)
EXTENDS Integers, Sequences, FiniteSets, TLC

VARIABLES menu, cart, orders, clock, req

vars == <<menu, cart, orders, clock, req>>

-----------------------------------------------------------------------------
(* Bounds of the model.                                                    *)

\* utcnow() is called at most MaxClock times in a behaviour
MaxClock == 4
\* at most MaxOrders orders are stored; requests name the order ids 1..MaxOrders
MaxOrders == 1

-----------------------------------------------------------------------------
(* Program constants.                                                      *)

\* Decimal('0.01'), the tolerance of the subtotal and total validators
Epsilon == 10
\* "Cantidad maxima por item: 20"
MaxCartQuantity == 20
\* decimal_places=2: a valid amount is a multiple of 0.01
CentUnit == 10

-----------------------------------------------------------------------------
(* Users, roles, catalog values, request records.                          *)

Users == {"c1", "c2", "s1"}

\* User.role
Role(u) == IF u = "s1" THEN "ADMIN_STAFF" ELSE "CLIENT"

Procs == {"p1", "p2"}

SeqProcs == {"p1"}

MenuIds == {"A", "B"}

Prices == {1000, 2500, 1995}

Names == {"nA", "nB"}

Statuses == {"PENDING", "IN_PREPARATION", "READY", "DELIVERED", "CANCELLED"}

Deleted == [state |-> "deleted"]

Live(m) == menu[m].state = "live"

Idle == [pc |-> "idle"]

NoDoc == [none |-> TRUE]

Ok == [code |-> 0, detail |-> "ok"]

Err(c, d) == [code |-> c, detail |-> d]

\* a request in flight: its inputs (caller, oid, arg), what it read (from), the
\* document it is about to write (doc)
InFlight(pc, op, u, oid, arg, from, doc) ==
    [pc |-> pc, op |-> op, caller |-> u, oid |-> oid, arg |-> arg,
     from |-> from, doc |-> doc, code |-> 0, detail |-> "none"]

\* a finished request and its response
Done(op, u, oid, arg, from, e) ==
    [pc |-> "done", op |-> op, caller |-> u, oid |-> oid, arg |-> arg,
     from |-> from, doc |-> NoDoc, code |-> e.code, detail |-> e.detail]

Finish(p, e) ==
    req' = [req EXCEPT ![p] =
              Done(req[p].op, req[p].caller, req[p].oid, req[p].arg, req[p].from, e)]

\* the response has been sent
Return(p) ==
    /\ req[p].pc = "done"
    /\ req' = [req EXCEPT ![p] = Idle]
    /\ UNCHANGED <<menu, cart, orders, clock>>

\* a dependency that lets every authenticated user through (get_current_user);
\* the properties of update_order_status must tell it from the one below
GetCurrentUser(u) == u \in Users

\* get_current_admin_user: the dependency that guards staff-only routes
GetCurrentAdminUser(u) == Role(u) = "ADMIN_STAFF"

-----------------------------------------------------------------------------
(* Order aggregate: validators of app/models/order.py.                     *)

Abs(x) == IF x < 0 THEN -x ELSE x

\* sum(item.subtotal for item in values['items'])
RECURSIVE SumSubtotals(_)
SumSubtotals(items) ==
    IF items = <<>> THEN 0
    ELSE items[1].subtotal + SumSubtotals(Tail(items))

\* Field(gt=0, decimal_places=2)
ValidAmount(v) == v > 0 /\ v % CentUnit = 0

\* OrderItem field constraints and validate_subtotal
OrderItemValid(it) ==
    /\ it.quantity > 0
    /\ ValidAmount(it.unit_price)
    /\ ValidAmount(it.subtotal)
    /\ ~(Abs(it.subtotal - it.quantity * it.unit_price) > Epsilon)

\* Order field constraints and validate_total_amount
OrderValid(o) ==
    /\ Len(o.items) >= 1
    /\ ValidAmount(o.total)
    /\ ~(Abs(o.total - SumSubtotals(o.items)) > Epsilon)

\* a table with one more edge, PENDING -> READY; the properties of
\* update_order_status must tell it from valid_transitions
ValidTransitionsSkip(s) ==
    CASE s = "PENDING" -> {"IN_PREPARATION", "READY", "CANCELLED"}
      [] s = "IN_PREPARATION" -> {"READY", "CANCELLED"}
      [] s = "READY" -> {"DELIVERED", "CANCELLED"}
      [] s = "DELIVERED" -> {}
      [] s = "CANCELLED" -> {}
      [] OTHER -> {}

\* valid_transitions of update_order_status
ValidTransitions(s) ==
    CASE s = "PENDING" -> {"IN_PREPARATION", "CANCELLED"}
      [] s = "IN_PREPARATION" -> {"READY", "CANCELLED"}
      [] s = "READY" -> {"DELIVERED", "CANCELLED"}
      [] s = "DELIVERED" -> {}
      [] s = "CANCELLED" -> {}
      [] OTHER -> {}

\* Order.get: absent -> None (404); a stored document whose status is null does
\* not parse as an Order (status: OrderStatus) and the handler's except answers 500
LoadOrder(oid) ==
    IF oid \notin DOMAIN orders THEN Err(404, "order_not_found")
    ELSE IF orders[oid].status = "NULL" THEN Err(500, "internal_error")
    ELSE Ok

\* order.status as the handler read it
StatusRead(oid) == IF oid \in DOMAIN orders THEN orders[oid].status ELSE "none"

-----------------------------------------------------------------------------
(* PATCH /orders/{id}/status : update_order_status                         *)

UpdateOrderStatusCheck(u, oid, to) ==
    IF ~GetCurrentAdminUser(u) THEN Err(403, "admin_required")
    ELSE IF LoadOrder(oid).code # 0 THEN LoadOrder(oid)
    ELSE IF to \notin ValidTransitions(orders[oid].status)
         THEN Err(400, "invalid_transition")
    ELSE Ok

UpdateOrderStatus(p) ==
    /\ req[p].pc = "idle"
    /\ \E u \in Users, oid \in 1..MaxOrders, to \in Statuses :
         LET e == UpdateOrderStatusCheck(u, oid, to) IN
         IF e.code # 0
         THEN /\ req' = [req EXCEPT ![p] =
                   Done("update_order_status", u, oid, to, StatusRead(oid), e)]
              /\ UNCHANGED <<menu, cart, orders, clock>>
         ELSE /\ clock < MaxClock
              /\ clock' = clock + 1
              /\ req' = [req EXCEPT ![p] =
                   InFlight("uos_save", "update_order_status", u, oid, to,
                            StatusRead(oid),
                            [orders[oid] EXCEPT !.status = to,
                                                !.updated_at = clock + 1])]
              /\ UNCHANGED <<menu, cart, orders>>

\* await order.save()
UpdateOrderStatusSave(p) ==
    /\ req[p].pc = "uos_save"
    /\ orders' = [orders EXCEPT ![req[p].oid] = req[p].doc]
    /\ Finish(p, Err(200, "ok"))
    /\ UNCHANGED <<menu, cart, clock>>

-----------------------------------------------------------------------------
(* DELETE /orders/{id} : cancel_order                                      *)

\* Three deviations of the cancel checks, which the properties of cancel_order
\* must tell from the handler's: no ownership check,
CancelOrderCheckNoOwner(u, oid) ==
    IF LoadOrder(oid).code # 0 THEN LoadOrder(oid)
    ELSE IF orders[oid].status = "CANCELLED" THEN Err(400, "already_cancelled")
    ELSE IF orders[oid].status = "DELIVERED" THEN Err(400, "already_delivered")
    ELSE IF Role(u) = "CLIENT" /\ orders[oid].status # "PENDING"
         THEN Err(400, "only_pending")
    ELSE Ok

\* no check for an order that is already cancelled,
CancelOrderCheckAgain(u, oid) ==
    IF LoadOrder(oid).code # 0 THEN LoadOrder(oid)
    ELSE IF orders[oid].status = "DELIVERED" THEN Err(400, "already_delivered")
    ELSE IF Role(u) = "CLIENT" /\ orders[oid].user_id # u
         THEN Err(403, "not_owner")
    ELSE IF Role(u) = "CLIENT" /\ orders[oid].status # "PENDING"
         THEN Err(400, "only_pending")
    ELSE Ok

\* 403 where the handler answers 400 to the owner of an order past PENDING
CancelOrderCheckForbidden(u, oid) ==
    IF LoadOrder(oid).code # 0 THEN LoadOrder(oid)
    ELSE IF orders[oid].status = "CANCELLED" THEN Err(400, "already_cancelled")
    ELSE IF orders[oid].status = "DELIVERED" THEN Err(400, "already_delivered")
    ELSE IF Role(u) = "CLIENT" /\ orders[oid].user_id # u
         THEN Err(403, "not_owner")
    ELSE IF Role(u) = "CLIENT" /\ orders[oid].status # "PENDING"
         THEN Err(403, "only_pending")
    ELSE Ok

CancelOrderCheck(u, oid) ==
    IF LoadOrder(oid).code # 0 THEN LoadOrder(oid)
    ELSE IF orders[oid].status = "CANCELLED" THEN Err(400, "already_cancelled")
    ELSE IF orders[oid].status = "DELIVERED" THEN Err(400, "already_delivered")
    ELSE IF Role(u) = "CLIENT" /\ orders[oid].user_id # u
         THEN Err(403, "not_owner")
    ELSE IF Role(u) = "CLIENT" /\ orders[oid].status # "PENDING"
         THEN Err(400, "only_pending")
    ELSE Ok

CancelOrder(p) ==
    /\ req[p].pc = "idle"
    /\ \E u \in Users, oid \in 1..MaxOrders :
         LET e == CancelOrderCheck(u, oid) IN
         IF e.code # 0
         THEN /\ req' = [req EXCEPT ![p] =
                   Done("cancel_order", u, oid, "CANCELLED", StatusRead(oid), e)]
              /\ UNCHANGED <<menu, cart, orders, clock>>
         ELSE /\ clock < MaxClock
              /\ clock' = clock + 1
              /\ req' = [req EXCEPT ![p] =
                   InFlight("cancel_save", "cancel_order", u, oid, "CANCELLED",
                            StatusRead(oid),
                            [orders[oid] EXCEPT !.status = "CANCELLED",
                                                !.updated_at = clock + 1])]
              /\ UNCHANGED <<menu, cart, orders>>

\* variant: a cancel that removes the stored order
CancelOrderSaveDeletes(p) ==
    /\ req[p].pc = "cancel_save"
    /\ orders' = SelectSeq(orders, LAMBDA o : o.created_at # req[p].doc.created_at)
    /\ Finish(p, Err(204, "ok"))
    /\ UNCHANGED <<menu, cart, clock>>

\* await order.save()
CancelOrderSave(p) ==
    /\ req[p].pc = "cancel_save"
    /\ orders' = [orders EXCEPT ![req[p].oid] = req[p].doc]
    /\ Finish(p, Err(204, "ok"))
    /\ UNCHANGED <<menu, cart, clock>>

-----------------------------------------------------------------------------
(* PUT /orders/{id} : update_order                                         *)

\* a field of OrderUpdate: not sent, sent as null, or sent with a value
StatusFields == {"UNSET", "NULL"} \cup Statuses

NotesFields == {"UNSET", "a"}

\* the checks without the one on order_data.status, which the properties of
\* update_order must tell from the handler's
UpdateOrderCheckNoStatusGuard(u, oid, st) ==
    IF LoadOrder(oid).code # 0 THEN LoadOrder(oid)
    ELSE IF Role(u) = "CLIENT" /\ orders[oid].user_id # u
         THEN Err(403, "not_owner")
    ELSE IF Role(u) = "CLIENT" /\ orders[oid].status # "PENDING"
         THEN Err(400, "only_pending")
    ELSE Ok

UpdateOrderCheck(u, oid, st) ==
    IF LoadOrder(oid).code # 0 THEN LoadOrder(oid)
    ELSE IF Role(u) = "CLIENT" /\ orders[oid].user_id # u
         THEN Err(403, "not_owner")
    ELSE IF Role(u) = "CLIENT" /\ orders[oid].status # "PENDING"
         THEN Err(400, "only_pending")
    ELSE IF Role(u) = "CLIENT" /\ st \notin {"UNSET", "NULL"}
         THEN Err(403, "client_status_change")
    ELSE Ok

\* variant: an update that also rewrites the creation time
ApplyUpdateRestamp(o, st, nt) ==
    [o EXCEPT !.status = IF st = "UNSET" THEN @ ELSE st,
              !.notes = IF nt = "UNSET" THEN @ ELSE nt,
              !.created_at = clock + 1]

\* order_data.dict(exclude_unset=True) applied field by field with setattr
ApplyUpdate(o, st, nt) ==
    [o EXCEPT !.status = IF st = "UNSET" THEN @ ELSE st,
              !.notes = IF nt = "UNSET" THEN @ ELSE nt]

UpdateOrder(p) ==
    /\ req[p].pc = "idle"
    /\ \E u \in Users, oid \in 1..MaxOrders, st \in StatusFields,
          nt \in NotesFields :
         LET e == UpdateOrderCheck(u, oid, st)
             a == [status |-> st, notes |-> nt] IN
         IF e.code # 0
         THEN /\ req' = [req EXCEPT ![p] =
                   Done("update_order", u, oid, a, StatusRead(oid), e)]
              /\ UNCHANGED <<menu, cart, orders, clock>>
         ELSE IF st = "UNSET" /\ nt = "UNSET"
         THEN \* update_data is empty: nothing is stamped or saved
              /\ req' = [req EXCEPT ![p] =
                   Done("update_order", u, oid, a, StatusRead(oid), Err(200, "ok"))]
              /\ UNCHANGED <<menu, cart, orders, clock>>
         ELSE /\ clock < MaxClock
              /\ clock' = clock + 1
              /\ req' = [req EXCEPT ![p] =
                   InFlight("uo_save", "update_order", u, oid, a, StatusRead(oid),
                            [ApplyUpdate(orders[oid], st, nt)
                               EXCEPT !.updated_at = clock + 1])]
              /\ UNCHANGED <<menu, cart, orders>>

\* await order.save(), then OrderResponse(status=order.status, ...): a null
\* status does not validate as OrderStatus and the handler's except answers 500
UpdateOrderSave(p) ==
    /\ req[p].pc = "uo_save"
    /\ orders' = [orders EXCEPT ![req[p].oid] = req[p].doc]
    /\ Finish(p, IF req[p].doc.status = "NULL" THEN Err(500, "internal_error")
                 ELSE Err(200, "ok"))
    /\ UNCHANGED <<menu, cart, clock>>

-----------------------------------------------------------------------------
(* Order creation: the item loop shared by create_order and                *)
(* create_order_from_cart.                                                 *)

\* a subtotal that is off by 0.01, which both validators accept; the properties
\* of stored orders must tell it from the handler's
SubtotalOffByCent(price, quantity) == price * quantity + CentUnit

\* subtotal = menu_item.price * quantity
Subtotal(price, quantity) == price * quantity

\* the price a cart line stored for the item, the catalog price if no line has it
SnapshotPrice(m) ==
    IF \E i \in 1..Len(cart) : cart[i].menu_item_id = m
    THEN cart[CHOOSE i \in 1..Len(cart) : cart[i].menu_item_id = m].menu_item_price
    ELSE menu[m].price

\* an order item priced from the cart's snapshot, which the properties of order
\* creation must tell from the handler's
MakeOrderItemFromSnapshot(m, quantity) ==
    [menu_item_id |-> m,
     menu_item_name |-> menu[m].name,
     quantity |-> quantity,
     unit_price |-> SnapshotPrice(m),
     subtotal |-> Subtotal(SnapshotPrice(m), quantity)]

\* OrderItem(menu_item_id=menu_item.id, menu_item_name=menu_item.name,
\*           quantity=..., unit_price=menu_item.price, subtotal=subtotal)
MakeOrderItem(m, quantity) ==
    [menu_item_id |-> m,
     menu_item_name |-> menu[m].name,
     quantity |-> quantity,
     unit_price |-> menu[m].price,
     subtotal |-> Subtotal(menu[m].price, quantity)]

\* the loop body without the availability check, which the properties of
\* create_order_from_cart must tell from the handler's
ItemCheckIgnoreAvailability(m, quantity) ==
    IF ~Live(m) THEN Err(404, "menu_item_not_found")
    ELSE IF ~OrderItemValid(MakeOrderItem(m, quantity))
         THEN Err(500, "internal_error")
    ELSE Ok

\* one pass of the loop body: lookup, availability, OrderItem construction
ItemCheck(m, quantity) ==
    IF ~Live(m) THEN Err(404, "menu_item_not_found")
    ELSE IF ~menu[m].available THEN Err(400, "item_unavailable")
    ELSE IF ~OrderItemValid(MakeOrderItem(m, quantity))
         THEN Err(500, "internal_error")
    ELSE Ok

\* the loop stops at the first item that raises
RECURSIVE ItemsCheck(_)
ItemsCheck(lines) ==
    IF lines = <<>> THEN Ok
    ELSE IF ItemCheck(lines[1].menu_item_id, lines[1].quantity).code # 0
         THEN ItemCheck(lines[1].menu_item_id, lines[1].quantity)
    ELSE ItemsCheck(Tail(lines))

\* order_items, in the order of the request's (or the cart's) lines
BuildItems(lines) ==
    [i \in 1..Len(lines) |-> MakeOrderItem(lines[i].menu_item_id, lines[i].quantity)]

\* total = Decimal('0.00'); total += subtotal
RECURSIVE AccumulateTotal(_)
AccumulateTotal(items) ==
    IF items = <<>> THEN 0
    ELSE items[1].subtotal + AccumulateTotal(Tail(items))

\* Order(user_id=current_user.id, items=order_items, total=total, notes=notes);
\* status, created_at and updated_at take their defaults
MakeOrder(u, lines, notes, now) ==
    [user_id |-> u,
     items |-> BuildItems(lines),
     total |-> AccumulateTotal(BuildItems(lines)),
     status |-> "PENDING",
     notes |-> notes,
     created_at |-> now,
     updated_at |-> now]

\* CartItem.find({"user_id": current_user.id}).to_list()
CartOf(u) == SelectSeq(cart, LAMBDA l : l.user_id = u)

\* a delete that removes nothing, which the properties of the cart delete must
\* tell from the handler's
CartUntouched(u) == cart

\* variant: the delete filter matches every line
CartDropped(u) == <<>>

\* CartItem.find({"user_id": current_user.id}).delete()
CartWithout(u) == SelectSeq(cart, LAMBDA l : l.user_id # u)

\* an OrderItemCreate of a request body
Line(m, quantity) == [menu_item_id |-> m, quantity |-> quantity]

\* the request bodies of POST /orders/ in the order-creation specification: no
\* item, a quantity of 0, one item, two items, the same item twice
ItemLists ==
    {<<>>, <<Line("A", 0)>>, <<Line("A", 2)>>, <<Line("B", 1), Line("A", 2)>>,
     <<Line("A", 1), Line("A", 2)>>}

\* the item lists that the order-lifecycle specification creates orders from
LifecycleLists ==
    {<<Line("A", 2)>>, <<Line("A", 1), Line("B", 2)>>}

\* notes of a new order (update_order writes notes later)
CreateNotes == {"NULL"}

-----------------------------------------------------------------------------
(* POST /orders/ : create_order                                            *)

\* a schema without min_items, which the properties of create_order must tell
\* from OrderCreate
OrderCreateValidAnyLength(lines) ==
    \A i \in 1..Len(lines) : lines[i].quantity > 0

\* OrderCreate: items min_items=1, OrderItemCreate.quantity gt=0
OrderCreateValid(lines) ==
    /\ Len(lines) >= 1
    /\ \A i \in 1..Len(lines) : lines[i].quantity > 0

CreateOrderCheck(u, lines, notes, now) ==
    IF ~OrderCreateValid(lines) THEN Err(422, "validation_error")
    ELSE IF ItemsCheck(lines).code # 0 THEN ItemsCheck(lines)
    ELSE IF ~OrderValid(MakeOrder(u, lines, notes, now))
         THEN Err(500, "internal_error")
    ELSE Ok

CreateOrder(p, users, lists) ==
    /\ req[p].pc = "idle"
    /\ \E u \in users, lines \in lists, notes \in CreateNotes :
         LET e == CreateOrderCheck(u, lines, notes, clock + 1) IN
         IF e.code # 0
         THEN /\ req' = [req EXCEPT ![p] =
                   Done("create_order", u, 0, lines, "none", e)]
              /\ UNCHANGED <<menu, cart, orders, clock>>
         ELSE /\ clock < MaxClock
              /\ Len(orders) < MaxOrders
              /\ clock' = clock + 1
              /\ req' = [req EXCEPT ![p] =
                   InFlight("co_save", "create_order", u, 0, lines, "none",
                            MakeOrder(u, lines, notes, clock + 1))]
              /\ UNCHANGED <<menu, cart, orders>>

\* await order.save()
CreateOrderSave(p) ==
    /\ req[p].pc = "co_save"
    /\ orders' = Append(orders, req[p].doc)
    /\ req' = [req EXCEPT ![p].pc = "co_clear", ![p].oid = Len(orders) + 1,
                          ![p].doc = NoDoc]
    /\ UNCHANGED <<menu, cart, clock>>

\* await CartItem.find({"user_id": current_user.id}).delete(), then the response
CreateOrderClear(p) ==
    /\ req[p].pc = "co_clear"
    /\ cart' = CartWithout(req[p].caller)
    /\ Finish(p, Err(201, "ok"))
    /\ UNCHANGED <<menu, orders, clock>>

-----------------------------------------------------------------------------
(* POST /orders/from-cart : create_order_from_cart                         *)

\* the cart delete before order.save(), which the properties of
\* create_order_from_cart must tell from the handler's order
CfcSequenceClearFirst == <<"cfc_clear", "cfc_save">>

\* the statements after the order is built: order.save(), then the cart delete
CfcSequence == <<"cfc_save", "cfc_clear">>

CfcAfter(pc) ==
    IF pc = CfcSequence[1] THEN CfcSequence[2] ELSE "cfc_return"

\* the checks without the one for an empty cart, which the properties of
\* create_order_from_cart must tell from the handler's
CreateFromCartCheckNoEmptyTest(u, notes, now) ==
    IF ItemsCheck(CartOf(u)).code # 0 THEN ItemsCheck(CartOf(u))
    ELSE IF ~OrderValid(MakeOrder(u, CartOf(u), notes, now))
         THEN Err(500, "internal_error")
    ELSE Ok

CreateFromCartCheck(u, notes, now) ==
    IF CartOf(u) = <<>> THEN Err(400, "cart_empty")
    ELSE IF ItemsCheck(CartOf(u)).code # 0 THEN ItemsCheck(CartOf(u))
    ELSE IF ~OrderValid(MakeOrder(u, CartOf(u), notes, now))
         THEN Err(500, "internal_error")
    ELSE Ok

CreateOrderFromCart(p, users) ==
    /\ req[p].pc = "idle"
    /\ \E u \in users, notes \in CreateNotes :
         LET e == CreateFromCartCheck(u, notes, clock + 1) IN
         IF e.code # 0
         THEN /\ req' = [req EXCEPT ![p] =
                   Done("create_order_from_cart", u, 0, CartOf(u), "none", e)]
              /\ UNCHANGED <<menu, cart, orders, clock>>
         ELSE /\ clock < MaxClock
              /\ Len(orders) < MaxOrders
              /\ clock' = clock + 1
              /\ req' = [req EXCEPT ![p] =
                   InFlight(CfcSequence[1], "create_order_from_cart", u, 0,
                            CartOf(u), "none",
                            MakeOrder(u, CartOf(u), notes, clock + 1))]
              /\ UNCHANGED <<menu, cart, orders>>

\* the next statement of the handler, or the response after the last one
CfcAdvance(p, oid) ==
    IF CfcAfter(req[p].pc) = "cfc_return"
    THEN req' = [req EXCEPT ![p] =
                   Done(req[p].op, req[p].caller, oid, req[p].arg, req[p].from,
                        Err(201, "ok"))]
    ELSE req' = [req EXCEPT ![p].pc = CfcAfter(req[p].pc), ![p].oid = oid]

\* await order.save(): the order is stored, or the database call raises and the
\* handler's except answers 500
CreateOrderFromCartSave(p) ==
    /\ req[p].pc = "cfc_save"
    /\ \/ /\ orders' = Append(orders, req[p].doc)
          /\ CfcAdvance(p, Len(orders) + 1)
          /\ UNCHANGED <<menu, cart, clock>>
       \/ /\ Finish(p, Err(500, "save_failed"))
          /\ UNCHANGED <<menu, cart, orders, clock>>

\* await CartItem.find({"user_id": current_user.id}).delete()
CreateOrderFromCartClear(p) ==
    /\ req[p].pc = "cfc_clear"
    /\ cart' = CartWithout(req[p].caller)
    /\ CfcAdvance(p, req[p].oid)
    /\ UNCHANGED <<menu, orders, clock>>

-----------------------------------------------------------------------------
(* POST /cart/items : add_to_cart                                          *)

\* CartItemCreate.quantity: gt=0, le=20
CartItemCreateValid(quantity) == quantity > 0 /\ quantity <= MaxCartQuantity

\* variant: the lookup never finds a line
FindOneMiss(u, m) == 0

\* CartItem.find_one({"user_id": ..., "menu_item_id": ...}): the index of the
\* first match, 0 if there is none
FindOne(u, m) ==
    IF \E i \in 1..Len(cart) : cart[i].user_id = u /\ cart[i].menu_item_id = m
    THEN CHOOSE i \in 1..Len(cart) :
           /\ cart[i].user_id = u /\ cart[i].menu_item_id = m
           /\ \A j \in 1..(i - 1) : ~(cart[j].user_id = u /\ cart[j].menu_item_id = m)
    ELSE 0

\* CartItem(user_id=..., menu_item_id=..., menu_item_name=menu_item.name,
\*          menu_item_price=menu_item.price, quantity=...)
MakeCartItem(u, m, quantity, now) ==
    [id |-> now, user_id |-> u, menu_item_id |-> m,
     menu_item_name |-> menu[m].name, menu_item_price |-> menu[m].price,
     quantity |-> quantity, created_at |-> now, updated_at |-> now]

\* CartItem field constraints: menu_item_price gt=0 decimal_places=2, quantity gt=0
CartItemValid(l) == ValidAmount(l.menu_item_price) /\ l.quantity > 0

\* variant: the checks of add_to_cart without the test of the summed quantity
AddToCartCheckNoLimit(u, m, quantity, now) ==
    IF ~CartItemCreateValid(quantity) THEN Err(422, "validation_error")
    ELSE IF ~Live(m) THEN Err(404, "menu_item_not_found")
    ELSE IF ~menu[m].available THEN Err(400, "item_unavailable")
    ELSE IF FindOne(u, m) # 0 THEN Ok
    ELSE IF ~CartItemValid(MakeCartItem(u, m, quantity, now))
         THEN Err(500, "internal_error")
    ELSE Ok

AddToCartCheck(u, m, quantity, now) ==
    IF ~CartItemCreateValid(quantity) THEN Err(422, "validation_error")
    ELSE IF ~Live(m) THEN Err(404, "menu_item_not_found")
    ELSE IF ~menu[m].available THEN Err(400, "item_unavailable")
    ELSE IF FindOne(u, m) # 0
         THEN IF cart[FindOne(u, m)].quantity + quantity > MaxCartQuantity
              THEN Err(400, "max_quantity")
              ELSE Ok
    ELSE IF ~CartItemValid(MakeCartItem(u, m, quantity, now))
         THEN Err(500, "internal_error")
    ELSE Ok

\* variant: an add that also copies the catalog's name and price onto the
\* line it finds
AddToCartRefreshing(p, users, quantities) ==
    /\ req[p].pc = "idle"
    /\ \E u \in users, m \in MenuIds, quantity \in quantities :
         LET e == AddToCartCheck(u, m, quantity, clock + 1)
             a == [menu_item_id |-> m, quantity |-> quantity] IN
         IF e.code # 0
         THEN /\ req' = [req EXCEPT ![p] = Done("add_to_cart", u, 0, a, "none", e)]
              /\ UNCHANGED <<menu, cart, orders, clock>>
         ELSE /\ clock < MaxClock
              /\ clock' = clock + 1
              /\ req' = [req EXCEPT ![p] =
                   InFlight("add_save", "add_to_cart", u, 0, a, "none",
                            IF FindOne(u, m) # 0
                            THEN [cart[FindOne(u, m)] EXCEPT
                                    !.quantity = @ + quantity,
                                    !.menu_item_name = menu[m].name,
                                    !.menu_item_price = menu[m].price,
                                    !.updated_at = clock + 1]
                            ELSE MakeCartItem(u, m, quantity, clock + 1))]
              /\ UNCHANGED <<menu, cart, orders>>

AddToCart(p, users, quantities) ==
    /\ req[p].pc = "idle"
    /\ \E u \in users, m \in MenuIds, quantity \in quantities :
         LET e == AddToCartCheck(u, m, quantity, clock + 1)
             a == [menu_item_id |-> m, quantity |-> quantity] IN
         IF e.code # 0
         THEN /\ req' = [req EXCEPT ![p] = Done("add_to_cart", u, 0, a, "none", e)]
              /\ UNCHANGED <<menu, cart, orders, clock>>
         ELSE /\ clock < MaxClock
              /\ clock' = clock + 1
              /\ req' = [req EXCEPT ![p] =
                   InFlight("add_save", "add_to_cart", u, 0, a, "none",
                            IF FindOne(u, m) # 0
                            THEN [cart[FindOne(u, m)] EXCEPT
                                    !.quantity = @ + quantity,
                                    !.updated_at = clock + 1]
                            ELSE MakeCartItem(u, m, quantity, clock + 1))]
              /\ UNCHANGED <<menu, cart, orders>>

\* Document.save(): replaces the stored document with that id, inserts it if absent
SaveCartItem(doc) ==
    IF \E i \in 1..Len(cart) : cart[i].id = doc.id
    THEN [i \in 1..Len(cart) |-> IF cart[i].id = doc.id THEN doc ELSE cart[i]]
    ELSE Append(cart, doc)

\* await existing_cart_item.save() / await cart_item.save()
AddToCartSave(p) ==
    /\ req[p].pc = "add_save"
    /\ cart' = SaveCartItem(req[p].doc)
    /\ Finish(p, Err(201, "ok"))
    /\ UNCHANGED <<menu, orders, clock>>

-----------------------------------------------------------------------------
(* POST /cart/quick-add : quick_add_to_cart                                *)

\* add_to_cart(CartItemCreate(menu_item_id=menu_item_id, quantity=1), current_user)
QuickAddToCart(p, users) == AddToCart(p, users, {1})

-----------------------------------------------------------------------------
(* PUT /cart/items/{id} : update_cart_item                                 *)

\* the ids that requests name: those of the stored lines and one, 0, that no
\* line has
CartIds == {cart[i].id : i \in 1..Len(cart)} \cup {0}

\* CartItem.get(id): the index of the line with that id, 0 if there is none
CartIndex(cid) ==
    IF \E i \in 1..Len(cart) : cart[i].id = cid
    THEN CHOOSE i \in 1..Len(cart) : cart[i].id = cid
    ELSE 0

\* variant: a schema without the upper limit
CartItemUpdateValidNoLimit(quantity) == quantity > 0

\* CartItemUpdate.quantity: gt=0, le=20
CartItemUpdateValid(quantity) == quantity > 0 /\ quantity <= MaxCartQuantity

\* variant: the lookup without the ownership check
CartItemAccessAnyUser(u, cid) ==
    IF CartIndex(cid) = 0 THEN Err(404, "cart_item_not_found")
    ELSE Ok

\* the lookup and the ownership check of update_cart_item and remove_cart_item
CartItemAccess(u, cid) ==
    IF CartIndex(cid) = 0 THEN Err(404, "cart_item_not_found")
    ELSE IF cart[CartIndex(cid)].user_id # u THEN Err(403, "not_owner")
    ELSE Ok

UpdateCartItemCheck(u, cid, quantity) ==
    IF ~CartItemUpdateValid(quantity) THEN Err(422, "validation_error")
    ELSE CartItemAccess(u, cid)

UpdateCartItem(p, users, quantities) ==
    /\ req[p].pc = "idle"
    /\ \E u \in users, cid \in CartIds, quantity \in quantities :
         LET e == UpdateCartItemCheck(u, cid, quantity) IN
         IF e.code # 0
         THEN /\ req' = [req EXCEPT ![p] =
                   Done("update_cart_item", u, cid, quantity, "none", e)]
              /\ UNCHANGED <<menu, cart, orders, clock>>
         ELSE /\ clock < MaxClock
              /\ clock' = clock + 1
              /\ req' = [req EXCEPT ![p] =
                   InFlight("uci_save", "update_cart_item", u, cid, quantity, "none",
                            [cart[CartIndex(cid)] EXCEPT
                               !.quantity = quantity,
                               !.updated_at = clock + 1])]
              /\ UNCHANGED <<menu, cart, orders>>

\* await cart_item.save()
UpdateCartItemSave(p) ==
    /\ req[p].pc = "uci_save"
    /\ cart' = SaveCartItem(req[p].doc)
    /\ Finish(p, Err(200, "ok"))
    /\ UNCHANGED <<menu, orders, clock>>

-----------------------------------------------------------------------------
(* DELETE /cart/items/{id} : remove_cart_item                              *)

\* variant: a remove that answers 204 whether or not the line is stored
RemoveCartItemLenient(p, users, ids) ==
    /\ req[p].pc = "idle"
    /\ \E u \in users, cid \in ids :
         LET e == CartItemAccess(u, cid) IN
         /\ req' = [req EXCEPT ![p] =
              IF e.code = 404
              THEN Done("remove_cart_item", u, cid, "none", "none", Err(204, "ok"))
              ELSE IF e.code # 0
              THEN Done("remove_cart_item", u, cid, "none", "none", e)
              ELSE InFlight("rci_delete", "remove_cart_item", u, cid, "none",
                            "none", cart[CartIndex(cid)])]
         /\ UNCHANGED <<menu, cart, orders, clock>>

RemoveCartItem(p, users, ids) ==
    /\ req[p].pc = "idle"
    /\ \E u \in users, cid \in ids :
         LET e == CartItemAccess(u, cid) IN
         /\ req' = [req EXCEPT ![p] =
              IF e.code # 0
              THEN Done("remove_cart_item", u, cid, "none", "none", e)
              ELSE InFlight("rci_delete", "remove_cart_item", u, cid, "none",
                            "none", cart[CartIndex(cid)])]
         /\ UNCHANGED <<menu, cart, orders, clock>>

\* await cart_item.delete()
RemoveCartItemDelete(p) ==
    /\ req[p].pc = "rci_delete"
    /\ cart' = SelectSeq(cart, LAMBDA l : l.id # req[p].oid)
    /\ Finish(p, Err(204, "ok"))
    /\ UNCHANGED <<menu, orders, clock>>

-----------------------------------------------------------------------------
(* DELETE /cart/ : clear_cart                                              *)

\* the handler is one call: CartItem.find({"user_id": current_user.id}).delete()
\* variant: a clear that refuses an empty cart
ClearCartStrict(p, users) ==
    /\ req[p].pc = "idle"
    /\ \E u \in users :
         /\ cart' = CartWithout(u)
         /\ req' = [req EXCEPT ![p] =
              Done("clear_cart", u, 0, "none", "none",
                   IF CartOf(u) = <<>> THEN Err(404, "cart_empty")
                   ELSE Err(204, "ok"))]
    /\ UNCHANGED <<menu, orders, clock>>

ClearCart(p, users) ==
    /\ req[p].pc = "idle"
    /\ \E u \in users :
         /\ cart' = CartWithout(u)
         /\ req' = [req EXCEPT ![p] =
              Done("clear_cart", u, 0, "none", "none", Err(204, "ok"))]
    /\ UNCHANGED <<menu, orders, clock>>

-----------------------------------------------------------------------------
(* GET /cart/ : get_cart                                                   *)

\* tax_rate = Decimal('0.10')
TaxRate == 100

\* the text appended to the name of a line whose menu item no longer exists;
\* a text is written as the sequence of its parts
NoDisponible == " (No disponible)"

\* CartItem.subtotal: menu_item_price * quantity
CartItemSubtotal(l) == l.menu_item_price * l.quantity

\* CartItemWithMenuInfo of a line whose MenuItem.get returned None: the stored
\* name with the suffix, the stored price and the stored subtotal
VanishedItem(l) ==
    [id |-> l.id, user_id |-> l.user_id, menu_item_id |-> l.menu_item_id,
     menu_item_name |-> <<l.menu_item_name, NoDisponible>>,
     menu_item_price |-> l.menu_item_price,
     menu_item_available |-> FALSE,
     quantity |-> l.quantity, subtotal |-> CartItemSubtotal(l),
     created_at |-> l.created_at, updated_at |-> l.updated_at]

\* variant: the line is answered with the price and subtotal it stored
DetailedItemSnapshot(l) ==
    [id |-> l.id, user_id |-> l.user_id, menu_item_id |-> l.menu_item_id,
     menu_item_name |-> <<menu[l.menu_item_id].name>>,
     menu_item_price |-> l.menu_item_price,
     menu_item_available |-> menu[l.menu_item_id].available,
     quantity |-> l.quantity, subtotal |-> CartItemSubtotal(l),
     created_at |-> l.created_at, updated_at |-> l.updated_at]

\* CartItemWithMenuInfo of a line whose menu item exists: the catalog's name,
\* price and availability, subtotal = menu_item.price * cart_item.quantity
DetailedItem(l) ==
    [id |-> l.id, user_id |-> l.user_id, menu_item_id |-> l.menu_item_id,
     menu_item_name |-> <<menu[l.menu_item_id].name>>,
     menu_item_price |-> menu[l.menu_item_id].price,
     menu_item_available |-> menu[l.menu_item_id].available,
     quantity |-> l.quantity,
     subtotal |-> menu[l.menu_item_id].price * l.quantity,
     created_at |-> l.created_at, updated_at |-> l.updated_at]

\* for cart_item in cart_items: a line whose item is gone is appended when
\* include_unavailable and the loop continues; a line whose item is unavailable
\* is skipped unless include_unavailable; any other line is appended and added
\* to total_quantity and subtotal
RECURSIVE ViewLoop(_, _, _)
ViewLoop(lines, include, acc) ==
    IF lines = <<>> THEN acc
    ELSE LET l == Head(lines) IN
         IF ~Live(l.menu_item_id)
         THEN ViewLoop(Tail(lines), include,
                       IF include
                       THEN [acc EXCEPT !.items = Append(@, VanishedItem(l))]
                       ELSE acc)
         ELSE IF ~menu[l.menu_item_id].available /\ ~include
         THEN ViewLoop(Tail(lines), include, acc)
         ELSE ViewLoop(Tail(lines), include,
                       [items |-> Append(acc.items, DetailedItem(l)),
                        total_quantity |-> acc.total_quantity + l.quantity,
                        subtotal |-> acc.subtotal + DetailedItem(l).subtotal])

\* max([item.updated_at for item in cart_items])
LastUpdated(lines) ==
    CHOOSE t \in {lines[i].updated_at : i \in 1..Len(lines)} :
        \A i \in 1..Len(lines) : lines[i].updated_at <= t

\* the CartSummary of the lines read; last_updated = None is written 0, every
\* stored time being a tick of at least 1; the tax is exact for a subtotal of
\* two decimals
Summary(lines, include) ==
    IF lines = <<>>
    THEN [items |-> <<>>, total_items |-> 0, total_quantity |-> 0,
          subtotal |-> 0, estimated_tax |-> 0, estimated_total |-> 0,
          is_empty |-> TRUE, last_updated |-> 0]
    ELSE LET acc == ViewLoop(lines, include,
                             [items |-> <<>>, total_quantity |-> 0, subtotal |-> 0])
             tax == (acc.subtotal * TaxRate) \div 1000
         IN  [items |-> acc.items, total_items |-> Len(acc.items),
              total_quantity |-> acc.total_quantity,
              subtotal |-> acc.subtotal,
              estimated_tax |-> tax,
              estimated_total |-> acc.subtotal + tax,
              is_empty |-> Len(acc.items) = 0,
              last_updated |-> LastUpdated(lines)]

\* get_cart reads and writes nothing; a stored line that CartItem cannot parse
\* makes the read of the cart fail, and every failure is answered 500. The
\* response is kept in `doc`, the lines read in `from`.
GetCart(p, users, includes) ==
    /\ req[p].pc = "idle"
    /\ \E u \in users, include \in includes :
         req' = [req EXCEPT ![p] =
           IF \E i \in 1..Len(CartOf(u)) : ~CartItemValid(CartOf(u)[i])
           THEN Done("get_cart", u, 0, include, CartOf(u),
                     Err(500, "internal_error"))
           ELSE [Done("get_cart", u, 0, include, CartOf(u), Err(200, "ok"))
                   EXCEPT !.doc = Summary(CartOf(u), include)]]
    /\ UNCHANGED <<menu, cart, orders, clock>>

\* return await get_cart(current_user=current_user): sync_cart and
\* bulk_update_cart call the handler as a function, so that include_unavailable
\* is its default, the Query(False) object, which `not include_unavailable`
\* and `if include_unavailable` take as true. The request that would end as d
\* ends with the answer of get_cart over the lines.
GetCartCalled(d, lines) ==
    IF \E i \in 1..Len(lines) : ~CartItemValid(lines[i])
    THEN [d EXCEPT !.code = 500, !.detail = "internal_error"]
    ELSE [d EXCEPT !.doc = Summary(lines, TRUE)]

-----------------------------------------------------------------------------
(* POST /cart/bulk-update : bulk_update_cart                               *)

\* BulkCartUpdate: items min_items=1 (max_items=50), each a CartItemCreate
BulkCartUpdateValid(lines) ==
    /\ Len(lines) >= 1
    /\ \A i \in 1..Len(lines) : CartItemCreateValid(lines[i].quantity)

\* the document that add_to_cart saves: the existing line with the quantity
\* added, or a new line
AddedCartItem(u, m, quantity, now) ==
    IF FindOne(u, m) # 0
    THEN [cart[FindOne(u, m)] EXCEPT !.quantity = @ + quantity, !.updated_at = now]
    ELSE MakeCartItem(u, m, quantity, now)

\* the handler's first statement deletes the caller's lines; the loop over the
\* items follows
BulkUpdateCart(p, users, lists) ==
    /\ req[p].pc = "idle"
    /\ \E u \in users, lines \in lists :
         IF ~BulkCartUpdateValid(lines)
         THEN /\ req' = [req EXCEPT ![p] =
                   Done("bulk_update_cart", u, 0, lines, "none",
                        Err(422, "validation_error"))]
              /\ UNCHANGED cart
         ELSE /\ clock + Len(lines) <= MaxClock
              /\ cart' = CartWithout(u)
              /\ req' = [req EXCEPT ![p] =
                   InFlight("bulk_add", "bulk_update_cart", u, 0, lines, "none",
                            [k |-> 1])]
    /\ UNCHANGED <<menu, orders, clock>>

\* variant: a loop that goes on to the next item when an add is refused
BulkAddSkipFailed(p) ==
    /\ req[p].pc = "bulk_add"
    /\ LET u == req[p].caller
           l == req[p].arg[req[p].doc.k]
           e == AddToCartCheck(u, l.menu_item_id, l.quantity, clock + 1)
       IN  IF e.code # 0
           THEN /\ IF req[p].doc.k = Len(req[p].arg)
                   THEN Finish(p, Err(200, "ok"))
                   ELSE req' = [req EXCEPT ![p].doc.k = @ + 1]
                /\ UNCHANGED <<cart, clock>>
           ELSE /\ clock < MaxClock
                /\ clock' = clock + 1
                /\ cart' = SaveCartItem(AddedCartItem(u, l.menu_item_id, l.quantity,
                                                      clock + 1))
                /\ IF req[p].doc.k = Len(req[p].arg)
                   THEN Finish(p, Err(200, "ok"))
                   ELSE req' = [req EXCEPT ![p].doc.k = @ + 1]
    /\ UNCHANGED <<menu, orders>>

\* await add_to_cart(item_data, current_user) for the k-th item: an
\* HTTPException of the add ends the request, the lines added so far stay; after
\* the last item the handler returns get_cart
BulkAdd(p) ==
    /\ req[p].pc = "bulk_add"
    /\ LET u == req[p].caller
           l == req[p].arg[req[p].doc.k]
           e == AddToCartCheck(u, l.menu_item_id, l.quantity, clock + 1)
       IN  IF e.code # 0
           THEN /\ Finish(p, e)
                /\ UNCHANGED <<cart, clock>>
           ELSE /\ clock < MaxClock
                /\ clock' = clock + 1
                /\ cart' = SaveCartItem(AddedCartItem(u, l.menu_item_id, l.quantity,
                                                      clock + 1))
                /\ IF req[p].doc.k = Len(req[p].arg)
                   THEN req' = [req EXCEPT ![p] =
                          GetCartCalled(
                            Done(req[p].op, u, req[p].oid, req[p].arg,
                                 req[p].from, Err(200, "ok")),
                            SelectSeq(cart', LAMBDA c : c.user_id = u))]
                   ELSE req' = [req EXCEPT ![p].doc.k = @ + 1]
    /\ UNCHANGED <<menu, orders>>

-----------------------------------------------------------------------------
(* POST /cart/sync : sync_cart                                             *)

\* the snapshot of line l differs from the catalog record
SnapshotDiffers(l) ==
    \/ l.menu_item_name # menu[l.menu_item_id].name
    \/ l.menu_item_price # menu[l.menu_item_id].price

\* where the loop over cart_items goes after its k-th line
SyncAfter(r) == IF r.doc.k = Len(r.arg) THEN "sync_remove" ELSE "sync_item"

\* cart_items = CartItem.find({"user_id": ...}).to_list(); an empty cart is
\* answered at once with get_cart
SyncCart(p, users) ==
    /\ req[p].pc = "idle"
    /\ \E u \in users :
         IF CartOf(u) = <<>>
         THEN req' = [req EXCEPT ![p] =
                GetCartCalled(Done("sync_cart", u, 0, <<>>, "none", Err(200, "ok")),
                              <<>>)]
         ELSE /\ clock + Len(CartOf(u)) <= MaxClock
              /\ req' = [req EXCEPT ![p] =
                   InFlight("sync_item", "sync_cart", u, 0, CartOf(u), "none",
                            [k |-> 1, gone |-> {}])]
    /\ UNCHANGED <<menu, cart, orders, clock>>

\* one pass of the loop: a line whose menu item no longer exists is marked for
\* removal; a line whose snapshot differs is given the catalog's name and price
\* and saved as it was read
SyncItem(p) ==
    /\ req[p].pc = "sync_item"
    /\ LET l == req[p].arg[req[p].doc.k] IN
         IF ~Live(l.menu_item_id)
         THEN /\ req' = [req EXCEPT ![p].pc = SyncAfter(req[p]),
                                    ![p].doc.k = @ + 1,
                                    ![p].doc.gone = @ \cup {l.id}]
              /\ UNCHANGED <<cart, clock>>
         ELSE IF SnapshotDiffers(l)
         THEN /\ clock < MaxClock
              /\ clock' = clock + 1
              /\ cart' = SaveCartItem(
                   [l EXCEPT !.menu_item_name = menu[l.menu_item_id].name,
                             !.menu_item_price = menu[l.menu_item_id].price,
                             !.updated_at = clock + 1])
              /\ req' = [req EXCEPT ![p].pc = SyncAfter(req[p]), ![p].doc.k = @ + 1]
         ELSE /\ req' = [req EXCEPT ![p].pc = SyncAfter(req[p]), ![p].doc.k = @ + 1]
              /\ UNCHANGED <<cart, clock>>
    /\ UNCHANGED <<menu, orders>>

\* variant: a sync that deletes nothing
SyncRemoveKeeps(p) ==
    /\ req[p].pc = "sync_remove"
    /\ Finish(p, Err(200, "ok"))
    /\ UNCHANGED <<menu, cart, orders, clock>>

\* for item in items_to_remove: await item.delete(); then the answer of
\* get_cart for the cart that is left
SyncRemove(p) ==
    /\ req[p].pc = "sync_remove"
    /\ cart' = SelectSeq(cart, LAMBDA l : l.id \notin req[p].doc.gone)
    /\ req' = [req EXCEPT ![p] =
         GetCartCalled(
           Done(req[p].op, req[p].caller, req[p].oid, req[p].arg, req[p].from,
                Err(200, "ok")),
           SelectSeq(cart', LAMBDA l : l.user_id = req[p].caller))]
    /\ UNCHANGED <<menu, orders, clock>>

-----------------------------------------------------------------------------
(* Catalog requests of app/routers/menu_items (staff only).                *)

\* the name of a body is taken by another item (the items share a category)
NameTaken(m, name) ==
    \E m2 \in MenuIds \ {m} : Live(m2) /\ menu[m2].name = name

\* PUT /menu-items/{id}: price is required, name and available are optional
\* ("UNSET" when the body leaves them out); the other fields of the body are
\* left out
UpdateMenuItemFields(p, names, prices, avails) ==
    /\ req[p].pc = "idle"
    /\ \E u \in Users, m \in MenuIds, name \in names, price \in prices,
          avail \in avails :
         IF ~GetCurrentAdminUser(u)
         THEN /\ req' = [req EXCEPT ![p] =
                   Done("update_menu_item", u, 0, m, "none", Err(403, "admin_required"))]
              /\ UNCHANGED <<menu, cart, orders, clock>>
         ELSE IF ~Live(m)
         THEN /\ req' = [req EXCEPT ![p] =
                   Done("update_menu_item", u, 0, m, "none", Err(404, "menu_item_not_found"))]
              /\ UNCHANGED <<menu, cart, orders, clock>>
         ELSE IF name # "UNSET" /\ name # menu[m].name /\ NameTaken(m, name)
         THEN /\ req' = [req EXCEPT ![p] =
                   Done("update_menu_item", u, 0, m, "none", Err(400, "name_taken"))]
              /\ UNCHANGED <<menu, cart, orders, clock>>
         ELSE /\ clock < MaxClock
              /\ clock' = clock + 1
              /\ menu' = [menu EXCEPT ![m] =
                   [state |-> "live",
                    name |-> IF name = "UNSET" THEN menu[m].name ELSE name,
                    price |-> price,
                    available |-> IF avail = "UNSET" THEN menu[m].available
                                  ELSE avail = "TRUE"]]
              \* MenuItemResponse (price: decimal_places=2) is built after the save
              /\ req' = [req EXCEPT ![p] =
                   Done("update_menu_item", u, 0, m, "none",
                        IF ValidAmount(price) THEN Err(200, "ok")
                        ELSE Err(500, "internal_error"))]
              /\ UNCHANGED <<cart, orders>>

\* the same request with a body that has no name
UpdateMenuItem(p, prices, avails) ==
    UpdateMenuItemFields(p, {"UNSET"}, prices, avails)

\* PATCH /menu-items/{id}/availability
ToggleItemAvailability(p) ==
    /\ req[p].pc = "idle"
    /\ \E u \in Users, m \in MenuIds, avail \in BOOLEAN :
         /\ GetCurrentAdminUser(u)
         /\ Live(m)
         /\ clock < MaxClock
         /\ clock' = clock + 1
         /\ menu' = [menu EXCEPT ![m].available = avail]
         /\ req' = [req EXCEPT ![p] =
              Done("toggle_item_availability", u, 0, m, "none",
                   IF ValidAmount(menu[m].price) THEN Err(200, "ok")
                   ELSE Err(500, "internal_error"))]
         /\ UNCHANGED <<cart, orders>>

\* DELETE /menu-items/{id}: refused while the item is in a cart or an active order
DeleteMenuItemCheck(m) ==
    IF ~Live(m) THEN Err(404, "menu_item_not_found")
    ELSE IF \E i \in 1..Len(cart) : cart[i].menu_item_id = m
         THEN Err(400, "in_carts")
    ELSE IF \E i \in 1..Len(orders) :
              /\ orders[i].status \in {"PENDING", "IN_PREPARATION", "READY"}
              /\ \E k \in 1..Len(orders[i].items) :
                   orders[i].items[k].menu_item_id = m
         THEN Err(400, "in_active_orders")
    ELSE Ok

DeleteMenuItem(p) ==
    /\ req[p].pc = "idle"
    /\ \E u \in Users, m \in MenuIds :
         /\ GetCurrentAdminUser(u)
         /\ IF DeleteMenuItemCheck(m).code # 0
            THEN /\ req' = [req EXCEPT ![p] =
                      Done("delete_menu_item", u, 0, m, "none", DeleteMenuItemCheck(m))]
                 /\ UNCHANGED menu
            ELSE /\ menu' = [menu EXCEPT ![m] = Deleted]
                 /\ req' = [req EXCEPT ![p] =
                      Done("delete_menu_item", u, 0, m, "none", Err(204, "ok"))]
         /\ UNCHANGED <<cart, orders, clock>>

-----------------------------------------------------------------------------
(* Reads of app/routers/orders.py: get_order, get_orders,                  *)
(* get_orders_by_status, get_user_orders, get_order_stats.                 *)

\* a datetime query parameter that the request leaves out
NoDate == -1

\* a Decimal query parameter that the request leaves out
NoAmount == -1

\* timedelta(days=30), in ticks
ThirtyDays == 30

\* the filter document handed to Order.find; "ANY" stands for a key that the
\* document does not have
Filter(user, st, from, to, least, most) ==
    [user_id |-> user, status |-> st, date_from |-> from, date_to |-> to,
     min_total |-> least, max_total |-> most]

\* the stored order o matches the filter document f
Matches(o, f) ==
    /\ f.user_id = "ANY" \/ o.user_id = f.user_id
    /\ f.status = "ANY" \/ o.status = f.status
    /\ f.date_from = NoDate \/ o.created_at >= f.date_from
    /\ f.date_to = NoDate \/ o.created_at <= f.date_to
    /\ f.min_total = NoAmount \/ o.total >= f.min_total
    /\ f.max_total = NoAmount \/ o.total <= f.max_total

\* Order.find(filters): the ids of the matching orders
Find(f) == {i \in DOMAIN orders : Matches(orders[i], f)}

\* .sort(-Order.created_at): latest first
RECURSIVE SortDesc(_)
SortDesc(ids) ==
    IF ids = {} THEN <<>>
    ELSE LET i == CHOOSE i \in ids :
                    \A j \in ids : orders[j].created_at <= orders[i].created_at
         IN  <<i>> \o SortDesc(ids \ {i})

\* .skip(skip).limit(limit)
Page(s, skip, limit) ==
    SubSeq(s, skip + 1, IF skip + limit < Len(s) THEN skip + limit ELSE Len(s))

\* OrderResponse(id=str(order.id), user_id=str(order.user_id), ...)
OrderResponse(i) ==
    [id |-> i, user_id |-> orders[i].user_id, items |-> orders[i].items,
     total |-> orders[i].total, status |-> orders[i].status,
     notes |-> orders[i].notes, created_at |-> orders[i].created_at,
     updated_at |-> orders[i].updated_at]

\* OrderList(orders=order_responses, total=Order.find(filters).count())
OrderList(f, skip, limit) ==
    LET page == Page(SortDesc(Find(f)), skip, limit) IN
    [orders |-> [k \in 1..Len(page) |-> OrderResponse(page[k])],
     total |-> Cardinality(Find(f))]

\* to_list() builds an Order of every document of the page: one whose status
\* is null does not parse and the handler's except answers 500
ListAnswer(f, skip, limit) ==
    IF \E k \in 1..Len(Page(SortDesc(Find(f)), skip, limit)) :
          orders[Page(SortDesc(Find(f)), skip, limit)[k]].status = "NULL"
    THEN Err(500, "internal_error")
    ELSE Err(200, "ok")

\* a finished read: its response is kept in `doc`
Answered(op, u, oid, arg, e, body) ==
    IF e.code = 200 THEN [Done(op, u, oid, arg, "none", e) EXCEPT !.doc = body]
    ELSE Done(op, u, oid, arg, "none", e)

\* GET /orders/{id}: 404 for an absent order, 403 for a client who is not its owner
GetOrderCheck(u, oid) ==
    IF LoadOrder(oid).code # 0 THEN LoadOrder(oid)
    ELSE IF Role(u) = "CLIENT" /\ orders[oid].user_id # u
         THEN Err(403, "not_owner")
    ELSE Err(200, "ok")

\* OrderWithUserInfo: the order, with the owner's username for staff
GetOrder(p, users, oids) ==
    /\ req[p].pc = "idle"
    /\ \E u \in users, oid \in oids :
         req' = [req EXCEPT ![p] =
           Answered("get_order", u, oid, "none", GetOrderCheck(u, oid),
                    IF GetOrderCheck(u, oid).code = 200
                    THEN [order |-> OrderResponse(oid),
                          username |-> IF Role(u) = "ADMIN_STAFF"
                                       THEN orders[oid].user_id ELSE "NULL"]
                    ELSE NoDoc)]
    /\ UNCHANGED <<menu, cart, orders, clock>>

\* the user_id values of a query: left out ("ANY"), a user, a string that is
\* not an ObjectId, an ObjectId that no user has
UserIdParams == {"ANY", "bad", "nobody"} \cup Users

\* variant: the user_id key is the one the query asked for, whoever asks
GetOrdersFilterAsAsked(u, user, st, from, to, least, most) ==
    Filter(user, st, from, to, least, most)

\* filters of get_orders: a client's user_id key is the caller whatever the
\* query says; staff get the key they asked for
GetOrdersFilter(u, user, st, from, to, least, most) ==
    Filter(IF Role(u) = "CLIENT" THEN u ELSE user, st, from, to, least, most)

\* GET /orders/
GetOrders(p, users, userParams, statuses, dates, amounts, skips, limits) ==
    /\ req[p].pc = "idle"
    /\ \E u \in users, user \in userParams, st \in statuses,
          from \in dates, to \in dates, least \in amounts, most \in amounts,
          skip \in skips, limit \in limits :
         LET f == GetOrdersFilter(u, user, st, from, to, least, most)
             a == [user_id |-> user, filter |-> f, skip |-> skip, limit |-> limit]
         IN  req' = [req EXCEPT ![p] =
               IF Role(u) # "CLIENT" /\ user = "bad"
               THEN Done("get_orders", u, 0, a, "none", Err(400, "invalid_user_id"))
               ELSE Answered("get_orders", u, 0, a, ListAnswer(f, skip, limit),
                             OrderList(f, skip, limit))]
    /\ UNCHANGED <<menu, cart, orders, clock>>

\* GET /orders/status/{status}: a client's filter has the caller as user_id
GetOrdersByStatus(p, users, statuses, skips, limits) ==
    /\ req[p].pc = "idle"
    /\ \E u \in users, st \in statuses, skip \in skips, limit \in limits :
         LET f == Filter(IF Role(u) = "CLIENT" THEN u ELSE "ANY", st,
                         NoDate, NoDate, NoAmount, NoAmount)
             a == [user_id |-> "ANY", filter |-> f, skip |-> skip, limit |-> limit]
         IN  req' = [req EXCEPT ![p] =
               Answered("get_orders_by_status", u, 0, a,
                        ListAnswer(f, skip, limit), OrderList(f, skip, limit))]
    /\ UNCHANGED <<menu, cart, orders, clock>>

\* GET /orders/user/{user_id}: staff only; 400 for a string that is not an
\* ObjectId, 404 for a user that does not exist
GetUserOrders(p, users, userParams, statuses, skips, limits) ==
    /\ req[p].pc = "idle"
    /\ \E u \in users, user \in userParams \ {"ANY"}, st \in statuses,
          skip \in skips, limit \in limits :
         LET f == Filter(user, st, NoDate, NoDate, NoAmount, NoAmount)
             a == [user_id |-> user, filter |-> f, skip |-> skip, limit |-> limit]
         IN  req' = [req EXCEPT ![p] =
               IF ~GetCurrentAdminUser(u)
               THEN Done("get_user_orders", u, 0, a, "none", Err(403, "admin_required"))
               ELSE IF user = "bad"
               THEN Done("get_user_orders", u, 0, a, "none", Err(400, "invalid_user_id"))
               ELSE IF user \notin Users
               THEN Done("get_user_orders", u, 0, a, "none", Err(404, "user_not_found"))
               ELSE Answered("get_user_orders", u, 0, a,
                             ListAnswer(f, skip, limit), OrderList(f, skip, limit))]
    /\ UNCHANGED <<menu, cart, orders, clock>>

\* sum(delivered_order_totals)
RECURSIVE SumTotals(_)
SumTotals(ids) ==
    IF ids = {} THEN 0
    ELSE LET i == CHOOSE i \in ids : TRUE IN orders[i].total + SumTotals(ids \ {i})

\* Decimal division of an amount by a count, rounded half to even; the quotient
\* is kept to six decimals (millionths), the amount being in thousandths
DecimalDivide(amount, n) ==
    LET q == (amount * 1000) \div n
        r == (amount * 1000) % n
    IN  IF 2 * r > n THEN q + 1
        ELSE IF 2 * r < n THEN q
        ELSE IF q % 2 = 0 THEN q ELSE q + 1

\* the orders of the range that have status st
WithStatus(ids, st) == {i \in ids : orders[i].status = st}

\* variant: revenue taken over every order of the range
OrderStatsAllRevenue(ids) ==
    [total_orders |-> Cardinality(ids),
     pending_orders |-> Cardinality(WithStatus(ids, "PENDING")),
     in_preparation_orders |-> Cardinality(WithStatus(ids, "IN_PREPARATION")),
     ready_orders |-> Cardinality(WithStatus(ids, "READY")),
     delivered_orders |-> Cardinality(WithStatus(ids, "DELIVERED")),
     cancelled_orders |-> Cardinality(WithStatus(ids, "CANCELLED")),
     total_revenue |-> SumTotals(ids),
     average_order_value |->
        IF ids = {} THEN 0 ELSE DecimalDivide(SumTotals(ids), Cardinality(ids))]

\* OrderStats: counts per status, revenue and average over the delivered
\* orders, Decimal('0.00') for both when there is none
OrderStats(ids) ==
    LET delivered == WithStatus(ids, "DELIVERED") IN
    [total_orders |-> Cardinality(ids),
     pending_orders |-> Cardinality(WithStatus(ids, "PENDING")),
     in_preparation_orders |-> Cardinality(WithStatus(ids, "IN_PREPARATION")),
     ready_orders |-> Cardinality(WithStatus(ids, "READY")),
     delivered_orders |-> Cardinality(delivered),
     cancelled_orders |-> Cardinality(WithStatus(ids, "CANCELLED")),
     total_revenue |-> SumTotals(delivered),
     average_order_value |->
        IF delivered = {} THEN 0
        ELSE DecimalDivide(SumTotals(delivered), Cardinality(delivered))]

\* date_to defaults to utcnow(), which no stored time has reached, and
\* date_from to thirty days before date_to
StatsRange(from, to) ==
    LET t == IF to = NoDate THEN clock + 1 ELSE to IN
    [date_from |-> IF from = NoDate THEN t - ThirtyDays ELSE from, date_to |-> t]

\* GET /orders/stats/dashboard: staff only; every order of the range is read
\* (to_list), so one with a null status makes the handler answer 500
GetOrderStats(p, users, dates) ==
    /\ req[p].pc = "idle"
    /\ \E u \in users, from \in dates, to \in dates :
         LET range == StatsRange(from, to)
             ids == Find(Filter("ANY", "ANY", range.date_from, range.date_to,
                                NoAmount, NoAmount))
         IN  req' = [req EXCEPT ![p] =
               IF ~GetCurrentAdminUser(u)
               THEN Done("get_order_stats", u, 0, range, "none",
                         Err(403, "admin_required"))
               ELSE Answered("get_order_stats", u, 0, range,
                             IF WithStatus(ids, "NULL") # {}
                             THEN Err(500, "internal_error") ELSE Err(200, "ok"),
                             OrderStats(ids))]
    /\ UNCHANGED <<menu, cart, orders, clock>>

-----------------------------------------------------------------------------
(* Specifications.                                                         *)

\* the database after the two menu items have been created; no cart, no order
Init ==
    /\ menu = [m \in MenuIds |->
                 [state |-> "live", name |-> IF m = "A" THEN "nA" ELSE "nB",
                  price |-> IF m = "A" THEN 1000 ELSE 2500, available |-> TRUE]]
    /\ cart = <<>>
    /\ orders = <<>>
    /\ clock = 0
    /\ req = [p \in Procs |-> Idle]

\* Order lifecycle: orders are created from item lists and then moved through
\* their statuses; requests run to completion.
Next ==
    \E p \in SeqProcs :
        \/ CreateOrder(p, Users, LifecycleLists)
        \/ CreateOrderSave(p)
        \/ CreateOrderClear(p)
        \/ UpdateOrderStatus(p)
        \/ UpdateOrderStatusSave(p)
        \/ CancelOrder(p)
        \/ CancelOrderSave(p)
        \/ UpdateOrder(p)
        \/ UpdateOrderSave(p)
        \/ Return(p)

Spec == Init /\ [][Next]_vars

\* the users who fill carts and place orders in the order-creation specification
Shoppers == {"c1", "s1"}

\* the quantities they add to their carts
CartQtys == {2}

\* Order creation: the catalog changes, carts are filled, orders are created
\* from item lists and from carts; requests run to completion.
CreateNext ==
    \E p \in SeqProcs :
        \/ UpdateMenuItem(p, Prices, {"UNSET"})
        \/ ToggleItemAvailability(p)
        \/ DeleteMenuItem(p)
        \/ AddToCart(p, Shoppers, CartQtys)
        \/ AddToCartSave(p)
        \/ CreateOrder(p, Shoppers, ItemLists)
        \/ CreateOrderSave(p)
        \/ CreateOrderClear(p)
        \/ CreateOrderFromCart(p, Shoppers)
        \/ CreateOrderFromCartSave(p)
        \/ CreateOrderFromCartClear(p)
        \/ Return(p)

CreateSpec == Init /\ [][CreateNext]_vars

\* the catalog price sent to update_menu_item in the cart specification
CartPrices == {2500}

\* the quantities sent to add_to_cart and to update_cart_item in it
CartAddQtys == {15}

CartUpdateQtys == {0, 20, 21}

\* the bodies of bulk_update_cart: no item, an item twice, two items
BulkLists ==
    {<<>>, <<Line("A", 10), Line("A", 10)>>, <<Line("B", 15), Line("A", 10)>>,
     <<Line("B", 15), Line("B", 15), Line("A", 10)>>}

\* the body of create_order
CartOrderLists == {<<Line("A", 2)>>}

\* Cart: catalog prices change, carts are filled, changed, synchronised, replaced
\* and emptied, orders are created from item lists and from carts; requests run
\* to completion.
CartNext ==
    \E p \in SeqProcs :
        \/ UpdateMenuItem(p, CartPrices, {"UNSET"})
        \/ AddToCart(p, Shoppers, CartAddQtys)
        \/ AddToCartSave(p)
        \/ QuickAddToCart(p, Shoppers)
        \/ UpdateCartItem(p, Shoppers, CartUpdateQtys)
        \/ UpdateCartItemSave(p)
        \/ RemoveCartItem(p, Shoppers, CartIds)
        \/ RemoveCartItemDelete(p)
        \/ ClearCart(p, Shoppers)
        \/ BulkUpdateCart(p, Shoppers, BulkLists)
        \/ BulkAdd(p)
        \/ SyncCart(p, Shoppers)
        \/ SyncItem(p)
        \/ SyncRemove(p)
        \/ CreateOrder(p, Shoppers, CartOrderLists)
        \/ CreateOrderSave(p)
        \/ CreateOrderClear(p)
        \/ CreateOrderFromCart(p, Shoppers)
        \/ CreateOrderFromCartSave(p)
        \/ CreateOrderFromCartClear(p)
        \/ Return(p)

CartSpec == Init /\ [][CartNext]_vars

\* Remove: lines are added, each add creating a line whose id is the clock's
\* value, and removed by id; requests name the ids given out so far, and 0
IssuedIds == 0..clock

RemoveNext ==
    \E p \in SeqProcs :
        \/ AddToCart(p, Shoppers, CartAddQtys)
        \/ AddToCartSave(p)
        \/ RemoveCartItem(p, Shoppers, IssuedIds)
        \/ RemoveCartItemDelete(p)
        \/ Return(p)

RemoveSpec == Init /\ [][RemoveNext]_vars

\* Sync: two processes serve requests, so that a menu item can be deleted
\* between the checks of an add_to_cart and its save, which leaves a line whose
\* menu item no longer exists.  A sync_cart starts when no other request is in
\* flight, and no other request starts before it has ended: the catalog and the
\* cart do not change under a sync.
SyncShoppers == {"c1"}

Syncing == \E q \in Procs : req[q].pc \in {"sync_item", "sync_remove"}

Quiet(p) == \A q \in Procs \ {p} : req[q].pc \in {"idle", "done"}

SyncNext ==
    \E p \in Procs :
        \/ ~Syncing /\ AddToCart(p, SyncShoppers, CartQtys)
        \/ ~Syncing /\ AddToCartSave(p)
        \/ ~Syncing /\ DeleteMenuItem(p)
        \/ ~Syncing /\ UpdateMenuItem(p, CartPrices, {"UNSET"})
        \/ ~Syncing /\ ToggleItemAvailability(p)
        \/ Quiet(p) /\ SyncCart(p, SyncShoppers)
        \/ SyncItem(p)
        \/ SyncRemove(p)
        \/ Return(p)

SyncSpec == Init /\ [][SyncNext]_vars

\* Cart view: two users fill and view their carts through one worker while
\* staff change prices and availability and delete menu items through the
\* other; a delete that lands between the checks and the save of an add leaves
\* a line whose menu item no longer exists.
ViewShoppers == {"c1", "s1"}

CatalogProcs == {"p2"}

ViewNext ==
    \/ \E p \in SeqProcs :
          \/ AddToCart(p, ViewShoppers, CartQtys)
          \/ AddToCartSave(p)
          \/ GetCart(p, ViewShoppers, BOOLEAN)
          \/ Return(p)
    \/ \E p \in CatalogProcs :
          \/ DeleteMenuItem(p)
          \/ UpdateMenuItem(p, CartPrices, {"UNSET"})
          \/ ToggleItemAvailability(p)
          \/ Return(p)

ViewSpec == Init /\ [][ViewNext]_vars

\* Reads of the order store. The store is any that two clients and the staff
\* can have produced within the clock's bound: each order is created from an
\* item list at one tick and either left PENDING or given its status (null
\* included) by one staff update at the next tick.
ReadOwners == {"c1", "c2"}

ReadLists == <<<<Line("A", 2)>>, <<Line("A", 1), Line("B", 2)>>>>

StoredStatuses == Statuses \cup {"NULL"}

\* the i-th order of a store
StoredOrder(i, u, st) ==
    IF st = "PENDING" THEN MakeOrder(u, ReadLists[i], "NULL", 2 * i - 1)
    ELSE [ApplyUpdate(MakeOrder(u, ReadLists[i], "NULL", 2 * i - 1), st, "UNSET")
            EXCEPT !.updated_at = 2 * i]

\* the stores of n orders
Stores(n) ==
    {[i \in 1..n |-> StoredOrder(i, us[i], sts[i])] :
        us \in [1..n -> ReadOwners], sts \in [1..n -> StoredStatuses]}

ReadInit ==
    /\ menu = [m \in MenuIds |->
                 [state |-> "live", name |-> IF m = "A" THEN "nA" ELSE "nB",
                  price |-> IF m = "A" THEN 1000 ELSE 2500, available |-> TRUE]]
    /\ cart = <<>>
    /\ orders \in UNION {Stores(n) : n \in 0..(MaxClock \div 2)}
    /\ clock = 2 * Len(orders)
    /\ req = [p \in Procs |-> Idle]

\* the order ids, dates and pages that the reads name
ReadOids == 1..(1 + MaxClock \div 2)

ReadDates == {NoDate} \cup 1..MaxClock

ReadSkips == {0, 1}

ReadLimits == {1, 50}

ReadNext ==
    \E p \in SeqProcs :
        \/ GetOrder(p, Users, ReadOids)
        \/ GetOrders(p, Users, UserIdParams, {"ANY"} \cup Statuses,
                     {NoDate}, {NoAmount}, ReadSkips, ReadLimits)
        \/ GetOrdersByStatus(p, Users, Statuses, ReadSkips, ReadLimits)
        \/ GetUserOrders(p, Users, UserIdParams, {"ANY"} \cup Statuses,
                         ReadSkips, ReadLimits)
        \/ GetOrderStats(p, Users, ReadDates)
        \/ Return(p)

ReadSpec == ReadInit /\ [][ReadNext]_vars

\* Snapshots: one client fills, changes, views and synchronises a cart while
\* the staff rename and reprice the menu items; requests run to completion.
SnapshotNames == {"UNSET", "nB", "nC"}

SnapshotNext ==
    \E p \in SeqProcs :
        \/ AddToCart(p, SyncShoppers, CartQtys)
        \/ AddToCartSave(p)
        \/ UpdateCartItem(p, SyncShoppers, CartUpdateQtys)
        \/ UpdateCartItemSave(p)
        \/ GetCart(p, SyncShoppers, BOOLEAN)
        \/ UpdateMenuItemFields(p, SnapshotNames, CartPrices, {"UNSET"})
        \/ SyncCart(p, SyncShoppers)
        \/ SyncItem(p)
        \/ SyncRemove(p)
        \/ Return(p)

SnapshotSpec == Init /\ [][SnapshotNext]_vars

\* Store: orders are created and cancelled while menu items and cart lines are
\* deleted
StoreShoppers == {"c1"}

StoreNext ==
    \E p \in SeqProcs :
        \/ CreateOrder(p, StoreShoppers, CartOrderLists)
        \/ CreateOrderSave(p)
        \/ CreateOrderClear(p)
        \/ CreateOrderFromCart(p, StoreShoppers)
        \/ CreateOrderFromCartSave(p)
        \/ CreateOrderFromCartClear(p)
        \/ CancelOrder(p)
        \/ CancelOrderSave(p)
        \/ DeleteMenuItem(p)
        \/ AddToCart(p, StoreShoppers, CartQtys)
        \/ AddToCartSave(p)
        \/ RemoveCartItem(p, StoreShoppers, CartIds)
        \/ RemoveCartItemDelete(p)
        \/ ClearCart(p, StoreShoppers)
        \/ Return(p)

StoreSpec == Init /\ [][StoreNext]_vars

\* Status race: two workers serve status updates and cancels of the same
\* order; the requests interleave between the read of the order and its save.
StatusRaceNext ==
    \E p \in Procs :
        \/ CreateOrder(p, StoreShoppers, CartOrderLists)
        \/ CreateOrderSave(p)
        \/ CreateOrderClear(p)
        \/ UpdateOrderStatus(p)
        \/ UpdateOrderStatusSave(p)
        \/ CancelOrder(p)
        \/ CancelOrderSave(p)
        \/ Return(p)

StatusRaceSpec == Init /\ [][StatusRaceNext]_vars

\* Add race: two workers serve the adds of the users; a second add may look
\* for the line before the first has saved it.
AddRaceNext ==
    \E p \in Procs :
        \/ AddToCart(p, Shoppers, CartQtys)
        \/ AddToCartSave(p)
        \/ Return(p)

AddRaceSpec == Init /\ [][AddRaceNext]_vars

\* Cart race: two workers serve a user's adds and orders from the cart; a
\* request may run between the cart read, the order save and the cart delete
\* of another. A creation is admitted while fewer than MaxOrders orders are
\* stored, so two overlapping creations may both store theirs.
CartRaceNext ==
    \E p \in Procs :
        \/ AddToCart(p, StoreShoppers, CartQtys)
        \/ AddToCartSave(p)
        \/ CreateOrderFromCart(p, StoreShoppers)
        \/ CreateOrderFromCartSave(p)
        \/ CreateOrderFromCartClear(p)
        \/ Return(p)

CartRaceSpec == Init /\ [][CartRaceNext]_vars

\* Notes race: two workers serve notes edits (update_order with a body that
\* has notes only) and status updates of the same order; a status update may
\* run between the read and the save of an edit.
NotesRaceNext ==
    \E p \in Procs :
        \/ CreateOrder(p, StoreShoppers, CartOrderLists)
        \/ CreateOrderSave(p)
        \/ CreateOrderClear(p)
        \/ UpdateOrder(p) /\ req'[p].arg.status = "UNSET"
        \/ UpdateOrderSave(p)
        \/ UpdateOrderStatus(p)
        \/ UpdateOrderStatusSave(p)
        \/ Return(p)

NotesRaceSpec == Init /\ [][NotesRaceNext]_vars

\* Returned cart: a client fills, replaces, synchronises and views the cart
\* through one worker while staff switch the availability of menu items
\* through the other.
ReturnedLists == {<<Line("A", 2)>>, <<Line("A", 2), Line("B", 2)>>}

ReturnedCartNext ==
    \/ \E p \in SeqProcs :
        \/ AddToCart(p, SyncShoppers, CartQtys)
        \/ AddToCartSave(p)
        \/ BulkUpdateCart(p, SyncShoppers, ReturnedLists)
        \/ BulkAdd(p)
        \/ SyncCart(p, SyncShoppers)
        \/ SyncItem(p)
        \/ SyncRemove(p)
        \/ GetCart(p, SyncShoppers, {FALSE})
        \/ Return(p)
    \/ \E p \in CatalogProcs :
        \/ ToggleItemAvailability(p)
        \/ Return(p)

ReturnedCartSpec == Init /\ [][ReturnedCartNext]_vars

-----------------------------------------------------------------------------
(* Properties.                                                             *)

\* the transition table as the specification states it
TableEdges ==
    {<<"PENDING", "IN_PREPARATION">>, <<"PENDING", "CANCELLED">>,
     <<"IN_PREPARATION", "READY">>, <<"IN_PREPARATION", "CANCELLED">>,
     <<"READY", "DELIVERED">>, <<"READY", "CANCELLED">>}

\* the statuses that only staff may give an order
StaffOnly == {"IN_PREPARATION", "READY", "DELIVERED"}

\* this step ends p's request
Finishing(p) == req[p].pc # "done" /\ req'[p].pc = "done"

\* p's request has ended; it was `op` on a stored order
Finished(p, op) ==
    /\ req[p].pc = "done"
    /\ req[p].op = op
    /\ req[p].oid \in DOMAIN orders

\* sum of the subtotals of an item list
RECURSIVE SumOf(_)
SumOf(items) ==
    IF Len(items) = 0 THEN 0
    ELSE SumOf(SubSeq(items, 1, Len(items) - 1)) + items[Len(items)].subtotal

\* C1: whichever request writes it (update_order_status, cancel_order or the
\* general update_order), every change of a stored order's status follows an
\* edge of the transition table; a DELIVERED or CANCELLED order never changes
\* status again.
StatusChangesFollowTable ==
    [][\A i \in DOMAIN orders :
         orders'[i].status # orders[i].status
           => <<orders[i].status, orders'[i].status>> \in TableEdges]_vars

\* C2: for a staff caller and a stored order, update_order_status succeeds and
\* stores the requested status exactly when (status read, status requested) is
\* an edge of the table; for every other pair it answers 400 (invalid
\* transition) and the stored orders are unchanged.
StaffUpdateStatusFollowsTable ==
    [][\A p \in Procs :
         ( /\ Finishing(p)
           /\ req'[p].op = "update_order_status"
           /\ Role(req'[p].caller) = "ADMIN_STAFF"
           /\ req'[p].oid \in DOMAIN orders
           /\ req'[p].from \in Statuses )
         => IF <<req'[p].from, req'[p].arg>> \in TableEdges
            THEN /\ req'[p].code = 200
                 /\ orders'[req'[p].oid].status = req'[p].arg
            ELSE /\ req'[p].code = 400
                 /\ req'[p].detail = "invalid_transition"
                 /\ orders' = orders]_vars

\* a staff request READY -> DELIVERED has succeeded
StaffDeliveredOrder ==
    \E p \in Procs :
        /\ Finished(p, "update_order_status")
        /\ req[p].from = "READY"
        /\ req[p].code = 200
        /\ orders[req[p].oid].status = "DELIVERED"

ClientCancelIffOwnPending ==
    \A p \in Procs :
        (Finished(p, "cancel_order") /\ Role(req[p].caller) = "CLIENT")
        => IF /\ orders[req[p].oid].user_id = req[p].caller
              /\ req[p].from = "PENDING"
           THEN req[p].code = 204 /\ orders[req[p].oid].status = "CANCELLED"
           ELSE req[p].code >= 400 /\ orders[req[p].oid].status = req[p].from

\* a CLIENT has cancelled their own PENDING order
ClientCancelledOwnOrder ==
    \E p \in Procs :
        /\ Finished(p, "cancel_order")
        /\ Role(req[p].caller) = "CLIENT"
        /\ orders[req[p].oid].user_id = req[p].caller
        /\ req[p].from = "PENDING"
        /\ req[p].code = 204
        /\ orders[req[p].oid].status = "CANCELLED"

\* C5: no request of a CLIENT makes an order's stored status IN_PREPARATION,
\* READY or DELIVERED: a step that stores one of these statuses, in a new or in
\* an existing order, is a step of a request whose caller is ADMIN_STAFF.
OnlyStaffStoresStaffStatuses ==
    [][\A i \in DOMAIN orders' :
         ( /\ orders'[i].status \in StaffOnly
           /\ (i \notin DOMAIN orders \/ orders[i].status # orders'[i].status) )
         => \E p \in Procs :
               /\ req[p].pc \notin {"idle", "done"}
               /\ req'[p] # req[p]
               /\ Role(req[p].caller) = "ADMIN_STAFF"]_vars

\* the owner of a PENDING order sent update_order a staff status and was refused
ClientStatusChangeRefused ==
    \E p \in Procs :
        /\ Finished(p, "update_order")
        /\ Role(req[p].caller) = "CLIENT"
        /\ orders[req[p].oid].user_id = req[p].caller
        /\ req[p].arg.status \in StaffOnly
        /\ req[p].code = 403
        /\ orders[req[p].oid].status = "PENDING"

\* C6: cancel_order called by staff succeeds and stores CANCELLED when the
\* order is PENDING, IN_PREPARATION or READY; on a CANCELLED order it fails as
\* already cancelled, on a DELIVERED order as already delivered, and in both
\* cases the orders are unchanged.
StaffCancel ==
    [][\A p \in Procs :
         ( /\ Finishing(p)
           /\ req'[p].op = "cancel_order"
           /\ Role(req'[p].caller) = "ADMIN_STAFF"
           /\ req'[p].oid \in DOMAIN orders )
         => /\ req'[p].from \in {"PENDING", "IN_PREPARATION", "READY"}
                 => /\ req'[p].code = 204
                    /\ orders'[req'[p].oid].status = "CANCELLED"
            /\ req'[p].from = "CANCELLED"
                 => /\ req'[p].code = 400
                    /\ req'[p].detail = "already_cancelled"
                    /\ orders' = orders
            /\ req'[p].from = "DELIVERED"
                 => /\ req'[p].code = 400
                    /\ req'[p].detail = "already_delivered"
                    /\ orders' = orders]_vars

\* staff asked to cancel a DELIVERED order and was refused
StaffCancelOfDeliveredRefused ==
    \E p \in Procs :
        /\ Finished(p, "cancel_order")
        /\ Role(req[p].caller) = "ADMIN_STAFF"
        /\ req[p].from = "DELIVERED"
        /\ req[p].detail = "already_delivered"
        /\ orders[req[p].oid].status = "DELIVERED"

\* the request of p is a cancel by the CLIENT who owns the order, read as
\* IN_PREPARATION or READY
OwnerCancelPastPending(r) ==
    /\ r.op = "cancel_order"
    /\ Role(r.caller) = "CLIENT"
    /\ r.oid \in DOMAIN orders
    /\ orders[r.oid].user_id = r.caller
    /\ r.from \in {"IN_PREPARATION", "READY"}

PricedFromCatalog(o, lines) ==
    /\ Len(o.items) = Len(lines)
    /\ \A k \in 1..Len(lines) :
         /\ o.items[k].menu_item_id = lines[k].menu_item_id
         /\ o.items[k].quantity = lines[k].quantity
         /\ Live(o.items[k].menu_item_id)
         /\ o.items[k].unit_price = menu[o.items[k].menu_item_id].price
         /\ o.items[k].subtotal = o.items[k].unit_price * o.items[k].quantity

\* C8: every order that create_order or create_order_from_cart stores has
\* status PENDING and the caller as user_id; each item has the catalog price of
\* its menu item as unit_price (not the price the cart line stored), subtotal =
\* unit_price * quantity, and the total is the sum of the subtotals.
CreatedOrdersPricedFromCatalog ==
    [][Len(orders') > Len(orders)
         => /\ Len(orders') = Len(orders) + 1
            /\ \E p \in Procs :
                 /\ req[p].pc \notin {"idle", "done"}
                 /\ req[p].op \in {"create_order", "create_order_from_cart"}
                 /\ req'[p] # req[p]
                 /\ orders'[Len(orders')].status = "PENDING"
                 /\ orders'[Len(orders')].user_id = req[p].caller
                 /\ PricedFromCatalog(orders'[Len(orders')], req[p].arg)
                 /\ orders'[Len(orders')].total = SumOf(orders'[Len(orders')].items)]_vars

\* an order was created from a cart one of whose lines stored a price other
\* than the item's price in the order
OrderFromStaleCart ==
    \E p \in Procs :
        /\ Finished(p, "create_order_from_cart")
        /\ req[p].code = 201
        /\ \E k \in 1..Len(req[p].arg) :
             req[p].arg[k].menu_item_price # orders[req[p].oid].items[k].unit_price

\* C9: in every reachable state every stored order has at least one item,
\* every item has a quantity above 0 and subtotal = unit_price * quantity, and
\* the order's total is the sum of the subtotals to within 0.01.
StoredOrdersConsistent ==
    \A i \in DOMAIN orders :
        /\ Len(orders[i].items) >= 1
        /\ \A k \in DOMAIN orders[i].items :
             /\ orders[i].items[k].quantity > 0
             /\ orders[i].items[k].subtotal
                  = orders[i].items[k].unit_price * orders[i].items[k].quantity
        /\ orders[i].total - SumOf(orders[i].items) <= Epsilon
        /\ SumOf(orders[i].items) - orders[i].total <= Epsilon

\* an order of two items is stored
TwoItemOrderStored ==
    \E i \in DOMAIN orders :
        /\ Len(orders[i].items) = 2
        /\ orders[i].total > orders[i].items[1].subtotal

\* C10: within create_order_from_cart the cart is deleted only after the order
\* has been stored: a step of the request that changes the cart is taken with
\* the order it built in the order store; and when storing the order fails, the
\* cart is what the request read and no order has been stored.
CartClearedAfterOrderStored ==
    [][\A p \in Procs :
         /\ ( /\ req[p].pc \notin {"idle", "done"}
              /\ req[p].op = "create_order_from_cart"
              /\ req'[p] # req[p]
              /\ cart' # cart )
            => /\ req[p].oid \in DOMAIN orders
               /\ orders[req[p].oid] = req[p].doc
         /\ ( /\ Finishing(p)
              /\ req'[p].op = "create_order_from_cart"
              /\ req'[p].detail = "save_failed" )
            => /\ cart' = cart
               /\ SelectSeq(cart', LAMBDA l : l.user_id = req'[p].caller) = req'[p].arg
               /\ orders' = orders]_vars

\* the order built from the cart is stored and the cart is not yet deleted
OrderStoredBeforeCartCleared ==
    \E p \in Procs :
        /\ req[p].pc = "cfc_clear"
        /\ req[p].oid \in DOMAIN orders
        /\ orders[req[p].oid] = req[p].doc
        /\ SelectSeq(cart, LAMBDA l : l.user_id = req[p].caller) = req[p].arg
        /\ req[p].arg # <<>>

\* the menu item exists and is available
Orderable(m) == Live(m) /\ menu[m].available

\* the lines of `lines` whose menu item can be ordered
OrderableLines(lines) == SelectSeq(lines, LAMBDA l : Orderable(l.menu_item_id))

\* the first line of `lines` whose menu item cannot be ordered
FirstNotOrderable(lines) ==
    CHOOSE k \in 1..Len(lines) :
        /\ ~Orderable(lines[k].menu_item_id)
        /\ \A j \in 1..(k - 1) : Orderable(lines[j].menu_item_id)

\* the lines before the k-th have a catalog price of two decimals
PricedBefore(lines, k) ==
    \A j \in 1..(k - 1) : ValidAmount(menu[lines[j].menu_item_id].price)

\* the response to a line whose menu item cannot be ordered
RefusalOf(r, m) ==
    IF Live(m) THEN r.code = 400 /\ r.detail = "item_unavailable"
    ELSE r.code = 404 /\ r.detail = "menu_item_not_found"

\* p's create_order_from_cart has ended; its cart had a line that can be
\* ordered and a line that cannot
MixedCartRequest(p) ==
    /\ req[p].pc = "done"
    /\ req[p].op = "create_order_from_cart"
    /\ \E k \in 1..Len(req[p].arg) : Orderable(req[p].arg[k].menu_item_id)
    /\ \E k \in 1..Len(req[p].arg) : ~Orderable(req[p].arg[k].menu_item_id)

UnorderableCartRequest(p) ==
    /\ req[p].pc = "done"
    /\ req[p].op = "create_order_from_cart"
    /\ req[p].arg # <<>>
    /\ \A k \in 1..Len(req[p].arg) : ~Orderable(req[p].arg[k].menu_item_id)

CartEmptyWhenOrderReturned ==
    \A p \in Procs :
        ( /\ req[p].pc = "done"
          /\ req[p].op = "create_order_from_cart"
          /\ req[p].code = 201 )
        => \A i \in 1..Len(cart) : cart[i].user_id # req[p].caller

\* an order was returned for a cart; the caller has no line left and another
\* user still has theirs
OrderReturnedCartEmpty ==
    \E p \in Procs :
        /\ Finished(p, "create_order_from_cart")
        /\ req[p].code = 201
        /\ req[p].arg # <<>>
        /\ cart # <<>>
        /\ \A i \in 1..Len(cart) : cart[i].user_id # req[p].caller

-----------------------------------------------------------------------------
(* Cart lines                                                              *)

\* the ids of the lines stored in c
LineIds(c) == {c[i].id : i \in 1..Len(c)}

\* the lines of c that belong to u
LinesOf(c, u) == SelectSeq(c, LAMBDA l : l.user_id = u)

\* the stored line with id `id`
LineWith(id) == cart[CHOOSE i \in 1..Len(cart) : cart[i].id = id]

\* C15 (as stated): a create_order that returns an order leaves every cart
\* line of the caller as it was.
ItemListOrderKeepsCart ==
    [][\A p \in Procs :
         (Finishing(p) /\ req'[p].op = "create_order" /\ req'[p].code = 201)
         => LinesOf(cart', req'[p].caller) = LinesOf(cart, req'[p].caller)]_vars

\* C15: a stored cart line disappears only in a step of remove_cart_item (the
\* line addressed), of clear_cart or bulk_update_cart (the caller's lines), of
\* sync_cart (a line of the caller whose menu item no longer exists), or of
\* create_order_from_cart or create_order after the order was stored (the
\* caller's lines).
CartLinesDeletedOnlyBy ==
    [][\A id \in LineIds(cart) \ LineIds(cart') :
         \E p \in Procs :
            \/ /\ req[p].pc = "rci_delete"
               /\ req[p].oid = id
            \/ /\ req[p].pc = "idle"
               /\ req'[p].pc # "idle"
               /\ req'[p].op \in {"clear_cart", "bulk_update_cart"}
               /\ LineWith(id).user_id = req'[p].caller
            \/ /\ req[p].pc = "sync_remove"
               /\ LineWith(id).user_id = req[p].caller
               /\ ~Live(LineWith(id).menu_item_id)
            \/ /\ req[p].pc \in {"cfc_clear", "co_clear"}
               /\ req[p].oid \in DOMAIN orders
               /\ orders[req[p].oid].user_id = req[p].caller
               /\ LineWith(id).user_id = req[p].caller]_vars

\* create_order has stored the order of a caller who has lines in the cart,
\* one of them for a menu item the order does not name; its next statement
\* deletes them
ItemListOrderClearsCart ==
    \E p \in Procs :
        /\ req[p].pc = "co_clear"
        /\ req[p].oid \in DOMAIN orders
        /\ \E i \in 1..Len(cart) :
              /\ cart[i].user_id = req[p].caller
              /\ \A k \in 1..Len(req[p].arg) :
                    req[p].arg[k].menu_item_id # cart[i].menu_item_id

\* C16: in every state reached by requests that run one after another, the
\* cart holds at most one line for each pair of user and menu item.
OneLinePerUserAndItem ==
    \A i, j \in 1..Len(cart) :
        ( /\ cart[i].user_id = cart[j].user_id
          /\ cart[i].menu_item_id = cart[j].menu_item_id )
        => i = j

\* bulk_update_cart was given the same menu item twice and answered 200; the
\* caller has one line for it, holding both quantities, next to a line of
\* another user for the same item
BulkDuplicatesMerged ==
    \E p \in Procs :
        /\ req[p].pc = "done"
        /\ req[p].op = "bulk_update_cart"
        /\ req[p].code = 200
        /\ Len(req[p].arg) = 2
        /\ req[p].arg[1].menu_item_id = req[p].arg[2].menu_item_id
        /\ Len(CartOf(req[p].caller)) = 1
        /\ CartOf(req[p].caller)[1].quantity
             = req[p].arg[1].quantity + req[p].arg[2].quantity
        /\ \E i \in 1..Len(cart) :
              /\ cart[i].user_id # req[p].caller
              /\ cart[i].menu_item_id = req[p].arg[1].menu_item_id

\* C17: in every reachable state every stored cart line has a quantity of at
\* least 1 and at most 20.
CartQuantitiesInRange ==
    \A i \in 1..Len(cart) :
        cart[i].quantity >= 1 /\ cart[i].quantity <= MaxCartQuantity

\* a line was brought to quantity 20 and an update of it to 21 was refused
\* as invalid; another line holds what an add and a quick add put together
QuantityAboveLimitRefused ==
    \E p \in Procs :
        /\ req[p].pc = "done"
        /\ req[p].op = "update_cart_item"
        /\ req[p].arg = MaxCartQuantity + 1
        /\ req[p].code = 422
        /\ CartIndex(req[p].oid) # 0
        /\ cart[CartIndex(req[p].oid)].quantity = MaxCartQuantity
        /\ cart[CartIndex(req[p].oid)].user_id = req[p].caller
        /\ \E i \in 1..Len(cart) : cart[i].quantity = 16

\* C18: an add_to_cart of a valid quantity for an orderable item, whose
\* quantity added to that of the caller's line for the item is more than 20,
\* is refused with 400 for the quantity limit, and the cart (the line's
\* quantity, snapshot and updated_at included) stays as it was.
AddBeyondLimitRefused ==
    [][\A p \in Procs :
         ( /\ Finishing(p)
           /\ req'[p].op = "add_to_cart"
           /\ CartItemCreateValid(req'[p].arg.quantity)
           /\ Orderable(req'[p].arg.menu_item_id)
           /\ FindOne(req'[p].caller, req'[p].arg.menu_item_id) # 0
           /\ cart[FindOne(req'[p].caller, req'[p].arg.menu_item_id)].quantity
                + req'[p].arg.quantity > MaxCartQuantity )
         => /\ req'[p].code = 400
            /\ req'[p].detail = "max_quantity"
            /\ cart' = cart]_vars

\* an add of 15 to a line of 15 was refused for the limit; the line still has
\* 15 and the snapshot and updated_at of its creation, although the catalog
\* price has changed since
AddToFullLineRefused ==
    \E p \in Procs :
        /\ req[p].pc = "done"
        /\ req[p].op = "add_to_cart"
        /\ req[p].code = 400
        /\ req[p].detail = "max_quantity"
        /\ req[p].arg.quantity = 15
        /\ LET l == cart[FindOne(req[p].caller, req[p].arg.menu_item_id)] IN
             /\ l.quantity = 15
             /\ l.updated_at = l.created_at
             /\ l.menu_item_price # menu[l.menu_item_id].price

\* C19: an add_to_cart with a valid quantity q answers 404 when the menu item
\* is absent and 400 (unavailable) when it is not available, the cart staying
\* as it was; otherwise, when the caller has no line for the item, it appends
\* one line with quantity q and the catalog's current name and price, and when
\* the caller has a line with quantity old and old + q <= 20, it sets that
\* line's quantity to old + q and leaves the number of lines and every other
\* line as they were.
AddToCartOutcomes ==
    [][\A p \in Procs :
         ( /\ Finishing(p)
           /\ req'[p].op = "add_to_cart"
           /\ CartItemCreateValid(req'[p].arg.quantity) )
         => LET u == req'[p].caller
                m == req'[p].arg.menu_item_id
                q == req'[p].arg.quantity
                i == FindOne(u, m)
                n == Len(cart)
            IN  IF ~Live(m)
                THEN req'[p].code = 404 /\ cart' = cart
                ELSE IF ~menu[m].available
                THEN /\ req'[p].code = 400
                     /\ req'[p].detail = "item_unavailable"
                     /\ cart' = cart
                ELSE IF i = 0
                THEN /\ req'[p].code = 201
                     /\ Len(cart') = n + 1
                     /\ SubSeq(cart', 1, n) = cart
                     /\ cart'[n + 1].user_id = u
                     /\ cart'[n + 1].menu_item_id = m
                     /\ cart'[n + 1].quantity = q
                     /\ cart'[n + 1].menu_item_name = menu[m].name
                     /\ cart'[n + 1].menu_item_price = menu[m].price
                ELSE IF cart[i].quantity + q <= MaxCartQuantity
                THEN /\ req'[p].code = 201
                     /\ Len(cart') = n
                     /\ cart'[i].quantity = cart[i].quantity + q
                     /\ \A j \in 1..n : j # i => cart'[j] = cart[j]
                ELSE TRUE]_vars

\* an add of an available item, for which the caller has no line, was answered
\* 500 and stored nothing: the catalog price has more than two decimals
AddOfOrderableItemFailed ==
    \E p \in Procs :
        /\ req[p].pc = "done"
        /\ req[p].op = "add_to_cart"
        /\ req[p].code = 500
        /\ Orderable(req[p].arg.menu_item_id)
        /\ ~ValidAmount(menu[req[p].arg.menu_item_id].price)
        /\ FindOne(req[p].caller, req[p].arg.menu_item_id) = 0

\* the operations on carts and the two order creations
CartOps ==
    {"add_to_cart", "update_cart_item", "remove_cart_item", "clear_cart",
     "sync_cart", "bulk_update_cart", "create_order", "create_order_from_cart"}

\* C20: no step of a cart operation or order creation called by user u adds,
\* changes or removes a cart line of another user; update_cart_item (with a
\* valid quantity) and remove_cart_item on a line that another user owns
\* answer 403 and leave the cart as it was, whatever the caller's role.
CartOpsTouchOwnLinesOnly ==
    [][\A p \in Procs :
         /\ ( /\ req'[p] # req[p]
              /\ req'[p].pc # "idle"
              /\ req'[p].op \in CartOps )
            => \A v \in Users \ {req'[p].caller} :
                  LinesOf(cart', v) = LinesOf(cart, v)
         /\ ( /\ Finishing(p)
              /\ req'[p].op \in {"update_cart_item", "remove_cart_item"}
              /\ req'[p].op = "update_cart_item" => CartItemUpdateValid(req'[p].arg)
              /\ CartIndex(req'[p].oid) # 0
              /\ cart[CartIndex(req'[p].oid)].user_id # req'[p].caller )
            => /\ req'[p].code = 403
               /\ cart' = cart]_vars

\* a staff member's remove_cart_item on a client's line was refused with 403;
\* the line is still stored
StaffRemoveOfClientLineRefused ==
    \E p \in Procs :
        /\ req[p].pc = "done"
        /\ req[p].op = "remove_cart_item"
        /\ Role(req[p].caller) = "ADMIN_STAFF"
        /\ req[p].code = 403
        /\ CartIndex(req[p].oid) # 0
        /\ Role(cart[CartIndex(req[p].oid)].user_id) = "CLIENT"

-----------------------------------------------------------------------------
(* The order store                                                         *)

\* C29: an order that is stored stays stored: every step keeps each order at
\* its place in the store, with the user and creation time it had, and the store
\* never gets shorter, whatever is cancelled or deleted.
OrdersNeverRemoved ==
    [][/\ Len(orders') >= Len(orders)
       /\ \A i \in DOMAIN orders :
             /\ orders'[i].user_id = orders[i].user_id
             /\ orders'[i].created_at = orders[i].created_at]_vars

\* an order was cancelled and a menu item it names was then deleted from the
\* catalog; the order is still stored, and no cart line is
CancelledOrderOutlivesItem ==
    \E p \in Procs, i \in DOMAIN orders :
        /\ req[p].pc = "done"
        /\ req[p].op = "delete_menu_item"
        /\ req[p].code = 204
        /\ orders[i].status = "CANCELLED"
        /\ \E k \in 1..Len(orders[i].items) :
              orders[i].items[k].menu_item_id = req[p].arg
        /\ cart = <<>>

\* the operations that write a stored order
OrderWriters == {"update_order_status", "cancel_order", "update_order"}

\* p's request was an update_order whose body has no field
EmptyUpdate(r) ==
    r.op = "update_order" /\ r.arg.status = "UNSET" /\ r.arg.notes = "UNSET"

\* C30 (as stated): every successful update_order_status, cancel_order and
\* update_order sets the order's updated_at.
SuccessfulWriteSetsUpdatedAt ==
    [][\A p \in Procs :
         ( /\ Finishing(p)
           /\ req'[p].op \in OrderWriters
           /\ req'[p].code \in {200, 204} )
         => orders'[req'[p].oid].updated_at > orders[req'[p].oid].updated_at]_vars

\* C30: no step changes the user_id, items, total or created_at of a stored
\* order; a successful update_order_status or cancel_order, and a successful
\* update_order whose body has at least one field, sets the order's updated_at
\* to the time of the call and leaves every other order as it was; a
\* successful update_order with no field writes nothing.
OrderFrame ==
    [][/\ \A i \in DOMAIN orders :
             /\ orders'[i].user_id = orders[i].user_id
             /\ orders'[i].items = orders[i].items
             /\ orders'[i].total = orders[i].total
             /\ orders'[i].created_at = orders[i].created_at
       /\ \A p \in Procs :
             ( /\ Finishing(p)
               /\ req'[p].op \in OrderWriters
               /\ req'[p].code \in {200, 204} )
             => IF EmptyUpdate(req'[p])
                THEN orders' = orders
                ELSE /\ orders'[req'[p].oid].updated_at = clock'
                     /\ orders'[req'[p].oid].updated_at > orders[req'[p].oid].updated_at
                     /\ \A i \in DOMAIN orders :
                           i # req'[p].oid => orders'[i] = orders[i]]_vars

\* an update_order with no field was answered 200 for an order whose status
\* had been changed before; updated_at is still that of the status change
EmptyUpdateAnswered ==
    \E p \in Procs :
        /\ req[p].pc = "done"
        /\ EmptyUpdate(req[p])
        /\ req[p].code = 200
        /\ req[p].oid \in DOMAIN orders
        /\ orders[req[p].oid].status = "IN_PREPARATION"
        /\ orders[req[p].oid].updated_at > orders[req[p].oid].created_at

-----------------------------------------------------------------------------
(* Cart deletions and bulk replacement                                     *)

\* C22: every clear_cart answers 204 and leaves the caller without a cart
\* line, so a second call straight after the first does too; when the caller
\* has no line the call changes nothing.
ClearIsIdempotent ==
    [][\A p \in Procs :
         (Finishing(p) /\ req'[p].op = "clear_cart")
         => /\ req'[p].code = 204
            /\ LinesOf(cart', req'[p].caller) = <<>>
            /\ LinesOf(cart, req'[p].caller) = <<>> => cart' = cart]_vars

\* a clear_cart has been answered 204; the caller has no line, so that a
\* second call meets an empty cart, and another user's line is still stored
ClearedCartReadyForSecondClear ==
    \E p \in Procs :
        /\ req[p].pc = "done"
        /\ req[p].op = "clear_cart"
        /\ req[p].code = 204
        /\ CartOf(req[p].caller) = <<>>
        /\ cart # <<>>

\* C23 (as stated): a remove_cart_item for the id of a line that was removed
\* before has the outcome of the first call, 204.
RepeatedRemoveSucceeds ==
    [][\A p \in Procs :
         ( /\ Finishing(p)
           /\ req'[p].op = "remove_cart_item"
           /\ req'[p].oid \in 1..clock
           /\ CartIndex(req'[p].oid) = 0 )
         => req'[p].code = 204]_vars

\* C23: a remove_cart_item for a line of the caller answers 204 and deletes
\* that line and no other; a remove_cart_item for an id that no stored line
\* has, the id of a line removed before included, answers 404 and leaves the
\* cart as it was.
RemoveThenNotFound ==
    [][\A p \in Procs :
         (Finishing(p) /\ req'[p].op = "remove_cart_item")
         => IF CartIndex(req'[p].oid) = 0
            THEN req'[p].code = 404 /\ cart' = cart
            ELSE cart[CartIndex(req'[p].oid)].user_id = req'[p].caller
                 => /\ req'[p].code = 204
                    /\ cart' = SelectSeq(cart, LAMBDA l : l.id # req'[p].oid)]_vars

\* the line with the id named was removed before (every id up to the clock's
\* value was given to a line) and the repeated remove was answered 404
RepeatedRemoveNotFound ==
    \E p \in Procs :
        /\ req[p].pc = "done"
        /\ req[p].op = "remove_cart_item"
        /\ req[p].oid \in 1..clock
        /\ CartIndex(req[p].oid) = 0
        /\ req[p].code = 404
        /\ cart # <<>>

\* what the add of item l makes of the lines acc: a repeated menu item adds to
\* the quantity of its line
AddLine(acc, l) ==
    IF \E i \in 1..Len(acc) : acc[i].menu_item_id = l.menu_item_id
    THEN [i \in 1..Len(acc) |->
            IF acc[i].menu_item_id = l.menu_item_id
            THEN Line(acc[i].menu_item_id, acc[i].quantity + l.quantity)
            ELSE acc[i]]
    ELSE Append(acc, Line(l.menu_item_id, l.quantity))

\* the lines that the first k items of a list make of an empty cart
RECURSIVE FirstAdds(_, _)
FirstAdds(lines, k) ==
    IF k = 0 THEN <<>> ELSE AddLine(FirstAdds(lines, k - 1), lines[k])

\* menu item and quantity of u's stored lines, in stored order
Contents(u) ==
    [i \in 1..Len(CartOf(u)) |->
       Line(CartOf(u)[i].menu_item_id, CartOf(u)[i].quantity)]

\* C24: while bulk_update_cart is about to add its k-th item, the caller's
\* cart holds what the first k-1 items make of an empty cart (nothing, for
\* k = 1: the lines stored before are gone); when it has answered 200 the cart
\* holds what all the items make of an empty cart, a repeated menu item in one
\* line; when it has answered with the failure of an add, that add was the one
\* of some k-th item, the response is that add's error, and the cart holds what
\* the first k-1 items make of an empty cart, no later item having been added.
BulkReplaceStopsAtFailure ==
    \A p \in Procs :
        (req[p].pc # "idle" /\ req[p].op = "bulk_update_cart")
        => LET u == req[p].caller
               lines == req[p].arg
           IN  IF req[p].pc = "bulk_add"
               THEN Contents(u) = FirstAdds(lines, req[p].doc.k - 1)
               ELSE IF req[p].code = 200
               THEN Contents(u) = FirstAdds(lines, Len(lines))
               ELSE IF req[p].code = 422
               THEN ~BulkCartUpdateValid(lines)
               ELSE \E k \in 1..Len(lines) :
                       /\ Contents(u) = FirstAdds(lines, k - 1)
                       /\ AddToCartCheck(u, lines[k].menu_item_id,
                                         lines[k].quantity, clock + 1).code
                            = req[p].code
                       /\ req[p].code >= 400

\* a bulk update of three items was refused at its second item, a repeat of
\* the first beyond the limit; the caller's cart holds the first item's line
\* and nothing else, the third item was not added
BulkRefusedAtSecondItem ==
    \E p \in Procs :
        /\ req[p].pc = "done"
        /\ req[p].op = "bulk_update_cart"
        /\ req[p].code = 400
        /\ req[p].detail = "max_quantity"
        /\ Len(req[p].arg) = 3
        /\ Contents(req[p].caller) = <<req[p].arg[1]>>
        /\ CartOf(req[p].caller)[1].id > 1

-----------------------------------------------------------------------------
(* Synchronisation and view of the cart                                    *)

\* the line of c with id `id`
LineIn(c, id) == c[CHOOSE i \in 1..Len(c) : c[i].id = id]

\* C25: when a sync_cart ends that ran with no other request in between, each
\* line it read whose menu item no longer exists is deleted; each other line it
\* read is still stored, available or not, with the catalog's current name and
\* price and the quantity it had, its updated_at later than before if the
\* snapshot differed from the catalog and unchanged if it did not; the caller
\* has no other line.
SyncReconcilesCart ==
    [][\A p \in Procs :
         (Finishing(p) /\ req'[p].op = "sync_cart")
         => LET u == req'[p].caller
                read == req'[p].arg
            IN  /\ req'[p].code = 200
                /\ LineIds(LinesOf(cart', u))
                     = {read[k].id : k \in {j \in 1..Len(read) :
                                              Live(read[j].menu_item_id)}}
                /\ \A k \in 1..Len(read) :
                      Live(read[k].menu_item_id)
                      => LET l == read[k]
                             n == LineIn(cart', l.id)
                         IN  /\ n.menu_item_name = menu[l.menu_item_id].name
                             /\ n.menu_item_price = menu[l.menu_item_id].price
                             /\ n.quantity = l.quantity
                             /\ n.user_id = l.user_id
                             /\ n.menu_item_id = l.menu_item_id
                             /\ IF SnapshotDiffers(l)
                                THEN n.updated_at > l.updated_at
                                ELSE n.updated_at = l.updated_at]_vars

\* a sync_cart has ended that read a line whose menu item was deleted and a
\* line whose price was out of date: the first is gone, the second carries the
\* catalog's price and the time of the sync
SyncDroppedAndRefreshed ==
    \E p \in Procs :
        /\ req[p].pc = "done"
        /\ req[p].op = "sync_cart"
        /\ req[p].code = 200
        /\ Len(req[p].arg) = 2
        /\ \E k \in 1..2 :
              /\ ~Live(req[p].arg[k].menu_item_id)
              /\ req[p].arg[k].id \notin LineIds(cart)
        /\ \E k \in 1..2 :
              /\ Live(req[p].arg[k].menu_item_id)
              /\ req[p].arg[k].menu_item_price
                   # menu[req[p].arg[k].menu_item_id].price
              /\ req[p].arg[k].id \in LineIds(cart)
              /\ LineIn(cart, req[p].arg[k].id).menu_item_price
                   = menu[req[p].arg[k].menu_item_id].price
              /\ LineIn(cart, req[p].arg[k].id).updated_at = clock

\* a get_cart ends in this step with a summary
Viewed(p) == Finishing(p) /\ req'[p].op = "get_cart" /\ req'[p].code = 200

\* the caller's stored lines that a view without include_unavailable shows
Showable(u) ==
    {i \in 1..Len(CartOf(u)) :
        /\ Live(CartOf(u)[i].menu_item_id)
        /\ menu[CartOf(u)[i].menu_item_id].available}

\* C26: a view without include_unavailable answers exactly the caller's lines
\* whose menu item exists and is available, a view with it answers every line
\* of the caller, each once; a line whose menu item exists carries its stored
\* quantity, the catalog's current price and price * quantity as subtotal; a
\* line whose menu item is gone is marked unavailable and carries the price
\* the line stored.
ViewShowsLines ==
    [][\A p \in Procs :
         Viewed(p)
         => LET u == req'[p].caller
                include == req'[p].arg
                items == req'[p].doc.items
                mine == CartOf(u)
            IN  /\ {items[k].id : k \in 1..Len(items)}
                     = IF include THEN LineIds(mine)
                       ELSE {mine[i].id : i \in Showable(u)}
                /\ Len(items) = Cardinality({items[k].id : k \in 1..Len(items)})
                /\ \A k \in 1..Len(items) :
                      LET l == LineIn(mine, items[k].id) IN
                      /\ items[k].user_id = u
                      /\ items[k].menu_item_id = l.menu_item_id
                      /\ items[k].quantity = l.quantity
                      /\ IF Live(l.menu_item_id)
                         THEN /\ items[k].menu_item_price = menu[l.menu_item_id].price
                              /\ items[k].subtotal
                                   = menu[l.menu_item_id].price * l.quantity
                              /\ items[k].menu_item_available
                                   = menu[l.menu_item_id].available
                         ELSE /\ items[k].menu_item_price = l.menu_item_price
                              /\ items[k].menu_item_available = FALSE
                              /\ items[k].menu_item_name
                                   = <<l.menu_item_name, NoDisponible>>]_vars

\* a view with include_unavailable has answered a line marked as no longer
\* available next to a line whose price is not the one the line stored, while
\* another user has a line too
ViewMarkedVanishedLine ==
    \E p \in Procs :
        /\ req[p].pc = "done"
        /\ req[p].op = "get_cart"
        /\ req[p].code = 200
        /\ req[p].arg = TRUE
        /\ \E i \in 1..Len(cart) : cart[i].user_id # req[p].caller
        /\ \E k, j \in 1..Len(req[p].doc.items) :
              /\ req[p].doc.items[k].menu_item_name
                   = <<req[p].from[k].menu_item_name, NoDisponible>>
              /\ ~req[p].doc.items[k].menu_item_available
              /\ Len(req[p].doc.items[j].menu_item_name) = 1
              /\ req[p].doc.items[j].menu_item_price
                   # LineIn(req[p].from, req[p].doc.items[j].id).menu_item_price

\* sum of the quantities of the answered lines
RECURSIVE QuantitySum(_)
QuantitySum(items) ==
    IF items = <<>> THEN 0 ELSE Head(items).quantity + QuantitySum(Tail(items))

\* sum of the subtotals of the answered lines
RECURSIVE SubtotalSum(_)
SubtotalSum(items) ==
    IF items = <<>> THEN 0 ELSE Head(items).subtotal + SubtotalSum(Tail(items))

\* C27: in the summary of a view, with or without include_unavailable,
\* total_items is the number of answered lines, total_quantity the sum of
\* their quantities, subtotal the sum of their subtotals, and is_empty holds
\* exactly when no line is answered, all aggregates then being zero.
SummaryAggregatesAnsweredLines ==
    [][\A p \in Procs :
         Viewed(p)
         => LET v == req'[p].doc IN
            /\ v.total_items = Len(v.items)
            /\ v.total_quantity = QuantitySum(v.items)
            /\ v.subtotal = SubtotalSum(v.items)
            /\ v.is_empty = (Len(v.items) = 0)
            /\ v.is_empty
               => /\ v.total_items = 0 /\ v.total_quantity = 0 /\ v.subtotal = 0
                  /\ v.estimated_tax = 0 /\ v.estimated_total = 0]_vars

\* a view with include_unavailable has answered a line whose menu item is gone,
\* and its total_quantity and subtotal leave that line out
VanishedLineLeftOutOfTotals ==
    \E p \in Procs :
        /\ req[p].pc = "done"
        /\ req[p].op = "get_cart"
        /\ req[p].code = 200
        /\ req[p].arg = TRUE
        /\ \E k \in 1..Len(req[p].doc.items) :
              ~req[p].doc.items[k].menu_item_available
              /\ Len(req[p].doc.items[k].menu_item_name) = 2
        /\ req[p].doc.total_items = Len(req[p].doc.items)
        /\ req[p].doc.total_quantity < QuantitySum(req[p].doc.items)
        /\ req[p].doc.subtotal < SubtotalSum(req[p].doc.items)

-----------------------------------------------------------------------------
(* Reads of the order store                                                *)

\* the request of p has ended and was a call of op
Ended(p, op) == req[p].pc = "done" /\ req[p].op = op

\* every order of the answered list belongs to user u
AllOf(list, u) == \A k \in 1..Len(list) : list[k].user_id = u

\* the stored orders of user u that have status st ("ANY": whatever status)
OwnMatching(u, st) ==
    {i \in DOMAIN orders :
        orders[i].user_id = u /\ (st = "ANY" \/ orders[i].status = st)}

InRange(range) ==
    {i \in DOMAIN orders :
        /\ orders[i].created_at >= range.date_from
        /\ orders[i].created_at <= range.date_to}

\* the sum of the totals of the orders with ids in `ids`, from the n-th on
RECURSIVE RevenueFrom(_, _)
RevenueFrom(ids, n) ==
    IF n > Len(orders) THEN 0
    ELSE (IF n \in ids THEN orders[n].total ELSE 0) + RevenueFrom(ids, n + 1)

-----------------------------------------------------------------------------
(* General update and the stored status                                    *)

\* a step of p's update_order, sent by a client
ClientUpdateStep(p) ==
    /\ req[p].pc \in {"idle", "uo_save"}
    /\ req'[p].pc \in {"uo_save", "done"}
    /\ req'[p].op = "update_order"
    /\ Role(req'[p].caller) = "CLIENT"

\* C31: an update_order of a client changes a stored order only when the
\* caller owns it and it is PENDING, and then only its notes and updated_at;
\* a client's update of another user's order, of an order that is not PENDING
\* or with a status in its body ends as a failure; no failed update of a client
\* changes the orders.
ClientUpdateEditsOwnPendingNotes ==
    [][\A p \in Procs :
         ClientUpdateStep(p)
         => LET u == req'[p].caller
                oid == req'[p].oid
            IN  /\ orders' # orders
                   => /\ orders[oid].user_id = u
                      /\ orders[oid].status = "PENDING"
                      /\ orders' = [orders EXCEPT
                                      ![oid].notes = orders'[oid].notes,
                                      ![oid].updated_at = orders'[oid].updated_at]
                /\ (req'[p].pc = "done" /\ req'[p].code >= 400)
                   => orders' = orders
                /\ ( /\ req[p].pc = "idle"
                     /\ oid \in DOMAIN orders
                     /\ orders[oid].status # "NULL"
                     /\ \/ orders[oid].user_id # u
                        \/ orders[oid].status # "PENDING"
                        \/ req'[p].arg.status # "UNSET" )
                   => req'[p].pc = "done" /\ req'[p].code >= 400]_vars

\* the owner of a PENDING order sent update_order a body whose status is null,
\* and the order is stored without a status
ClientStoredNullStatus ==
    \E p \in Procs :
        /\ Finished(p, "update_order")
        /\ Role(req[p].caller) = "CLIENT"
        /\ orders[req[p].oid].user_id = req[p].caller
        /\ req[p].arg.status = "NULL"
        /\ req[p].from = "PENDING"
        /\ orders[req[p].oid].status = "NULL"

\* C38: every stored order's status is PENDING, IN_PREPARATION, READY,
\* DELIVERED or CANCELLED; no request stores an order with a null status.
StoredStatusIsEnumValue ==
    \A i \in DOMAIN orders : orders[i].status \in Statuses

\* an order is stored without a status and the update_order that wrote it was
\* sent by the staff
OrderStoredWithoutStatus ==
    /\ \E i \in DOMAIN orders : orders[i].status = "NULL"
    /\ \E p \in Procs :
          /\ Finished(p, "update_order")
          /\ Role(req[p].caller) = "ADMIN_STAFF"
          /\ req[p].arg.status = "NULL"
          /\ req[p].code = 500

-----------------------------------------------------------------------------
(* Snapshot of a cart line                                                 *)

\* C32: a step that changes the stored menu_item_name or menu_item_price of a
\* line that stays in the cart is a step of sync_cart on that line, which
\* gives it the catalog's name and price; no step of add_to_cart,
\* update_cart_item, get_cart or update_menu_item does.
SnapshotChangedOnlyBySync ==
    [][\A i \in 1..Len(cart), j \in 1..Len(cart') :
         ( /\ cart[i].id = cart'[j].id
           /\ \/ cart[i].menu_item_name # cart'[j].menu_item_name
              \/ cart[i].menu_item_price # cart'[j].menu_item_price )
         => \E p \in Procs :
               /\ req[p].pc = "sync_item"
               /\ req[p].arg[req[p].doc.k].id = cart[i].id
               /\ req'[p].doc.k = req[p].doc.k + 1
               /\ cart'[j].menu_item_name = menu[cart[i].menu_item_id].name
               /\ cart'[j].menu_item_price = menu[cart[i].menu_item_id].price]_vars

\* an add has raised the quantity of a line whose item was renamed and
\* repriced after the line was created, and the line still has the old name
\* and price
StaleSnapshotSurvivedAdd ==
    \E p \in Procs :
        /\ Ended(p, "add_to_cart")
        /\ req[p].code = 201
        /\ \E i \in 1..Len(cart) :
              /\ cart[i].user_id = req[p].caller
              /\ cart[i].menu_item_id = req[p].arg.menu_item_id
              /\ cart[i].quantity > req[p].arg.quantity
              /\ cart[i].menu_item_name # menu[cart[i].menu_item_id].name
              /\ cart[i].menu_item_price # menu[cart[i].menu_item_id].price

-----------------------------------------------------------------------------
(* Interleaved requests                                                    *)

\* C33: with update_order_status and cancel_order requests interleaved, each
\* validated against the status it read, every change of a stored status
\* follows an edge of the table and an order stored as DELIVERED or CANCELLED
\* is never stored with another status afterwards.
InterleavedStatusChangesFollowTable ==
    [][\A i \in DOMAIN orders :
         orders'[i].status # orders[i].status
           => /\ orders[i].status \notin {"DELIVERED", "CANCELLED"}
              /\ orders'[i].status \in ValidTransitions(orders[i].status)]_vars

\* a cancel and a status update read the same PENDING order; the cancel was
\* saved first and answered 204, then the update's save replaced CANCELLED
CancelledOrderOverwritten ==
    \E p, q \in Procs :
        /\ Ended(p, "cancel_order")
        /\ req[p].code = 204
        /\ req[p].from = "PENDING"
        /\ Ended(q, "update_order_status")
        /\ req[q].code = 200
        /\ req[q].from = "PENDING"
        /\ req[q].oid = req[p].oid
        /\ orders[req[p].oid].status = "IN_PREPARATION"

\* C34: with the adds of a user interleaved, each looking for the line and
\* then inserting or updating, no two stored lines have the same user_id and
\* menu_item_id.
InterleavedAddsKeepOneLine ==
    \A u \in Users, m \in MenuIds :
        Cardinality({i \in 1..Len(cart) :
                       cart[i].user_id = u /\ cart[i].menu_item_id = m}) <= 1

\* two adds of the same user for the same item have both answered 201 and the
\* cart holds two lines for that user and item
TwoLinesForOneItem ==
    \E p, q \in Procs :
        /\ p # q
        /\ Ended(p, "add_to_cart") /\ req[p].code = 201
        /\ Ended(q, "add_to_cart") /\ req[q].code = 201
        /\ req[p].caller = req[q].caller
        /\ req[p].arg.menu_item_id = req[q].arg.menu_item_id
        /\ \E i, j \in 1..Len(cart) :
              /\ i # j
              /\ cart[i].user_id = req[p].caller /\ cart[j].user_id = req[p].caller
              /\ cart[i].menu_item_id = req[p].arg.menu_item_id
              /\ cart[j].menu_item_id = req[p].arg.menu_item_id

\* C35: every line that the cart delete of a create_order_from_cart removes
\* is in the order that the request stored, with the quantity the line has
\* when it is removed, also when an add of the same user ran after the
\* request read the cart.
ClearedLinesWereOrdered ==
    [][\A p \in Procs :
         (req[p].pc = "cfc_clear" /\ req'[p] # req[p])
         => \A i \in 1..Len(cart) :
               cart[i].id \notin LineIds(cart')
               => \E k \in 1..Len(orders[req[p].oid].items) :
                     /\ orders[req[p].oid].items[k].menu_item_id
                          = cart[i].menu_item_id
                     /\ orders[req[p].oid].items[k].quantity
                          = cart[i].quantity]_vars

\* an add and a create_order_from_cart of the same user have both answered
\* 201; the item of the add is not in the order and the user's cart is empty
AddedLineLostToClear ==
    \E p, q \in Procs :
        /\ Ended(p, "create_order_from_cart") /\ req[p].code = 201
        /\ Ended(q, "add_to_cart") /\ req[q].code = 201
        /\ req[q].caller = req[p].caller
        /\ \A k \in 1..Len(orders[req[p].oid].items) :
              orders[req[p].oid].items[k].menu_item_id # req[q].arg.menu_item_id
        /\ CartOf(req[p].caller) = <<>>

\* C36: two create_order_from_cart requests of a user that read the same cart
\* lines do not both store an order.
OverlappingFromCartStoreOneOrder ==
    \A p, q \in Procs :
        ( /\ p # q
          /\ req[p].pc # "idle" /\ req[q].pc # "idle"
          /\ req[p].op = "create_order_from_cart"
          /\ req[q].op = "create_order_from_cart"
          /\ req[p].caller = req[q].caller
          /\ req[p].arg = req[q].arg )
        => ~(req[p].oid # 0 /\ req[q].oid # 0)

\* two create_order_from_cart requests of a user that read the same lines have
\* both answered 201, and two orders with the same items are stored
DuplicateOrderFromOneCart ==
    \E p, q \in Procs :
        /\ p # q
        /\ Ended(p, "create_order_from_cart") /\ req[p].code = 201
        /\ Ended(q, "create_order_from_cart") /\ req[q].code = 201
        /\ req[p].caller = req[q].caller
        /\ req[p].arg = req[q].arg
        /\ req[p].oid # req[q].oid
        /\ orders[req[p].oid].items = orders[req[q].oid].items

\* C37: the save of an update_order whose body has notes only leaves the stored
\* status of the order as it is, also when a status update of the order was
\* saved after the edit read the order.
NotesEditKeepsStoredStatus ==
    [][\A p \in Procs :
         ( /\ req[p].pc = "uo_save"
           /\ req'[p].pc = "done"
           /\ req[p].arg.status = "UNSET" )
         => orders'[req[p].oid].status = orders[req[p].oid].status]_vars

\* a notes edit that read the order as PENDING and a status update to
\* IN_PREPARATION have both answered 200, the status update's save came first,
\* and the order is stored as PENDING with the new notes
NotesEditRevertedStatus ==
    \E p, q \in Procs :
        /\ Ended(p, "update_order") /\ req[p].code = 200
        /\ req[p].arg.status = "UNSET" /\ req[p].arg.notes = "a"
        /\ req[p].from = "PENDING"
        /\ Ended(q, "update_order_status") /\ req[q].code = 200
        /\ req[q].arg = "IN_PREPARATION"
        /\ req[q].oid = req[p].oid
        /\ orders[req[p].oid].status = "PENDING"
        /\ orders[req[p].oid].notes = "a"

\* how far a status is along PENDING, IN_PREPARATION, READY, DELIVERED, with
\* CANCELLED as far as DELIVERED; an order whose changes all go further
\* changes at most 3 times
Progress(st) ==
    CASE st = "PENDING" -> 0
      [] st = "IN_PREPARATION" -> 1
      [] st = "READY" -> 2
      [] OTHER -> 3

\* the statuses that the table reaches from st in at most n transitions
RECURSIVE ReachedFrom(_, _)
ReachedFrom(st, n) ==
    IF n = 0 THEN {st}
    ELSE {st} \cup UNION {ReachedFrom(t, n - 1) : t \in ValidTransitions(st)}

ReturnedCartIsDefaultView ==
    [][\A p \in Procs :
         /\ Finishing(p)
         /\ req'[p].op \in {"sync_cart", "bulk_update_cart"}
         /\ req'[p].code = 200
         => /\ req'[p].doc = Summary(LinesOf(cart', req'[p].caller), FALSE)
            /\ \A i \in 1..Len(req'[p].doc.items) :
                 req'[p].doc.items[i].menu_item_available]_vars

\* a sync_cart was answered with a line whose menu item is unavailable, counted
\* in total_quantity, while the cart and the catalog are as the sync left them:
\* get_cart with include_unavailable=false answers without that line
SyncReturnedUnavailableLine ==
    \E p \in Procs :
        /\ Ended(p, "sync_cart") /\ req[p].code = 200
        /\ \E i \in 1..Len(req[p].doc.items) :
             /\ ~req[p].doc.items[i].menu_item_available
             /\ req[p].doc.total_quantity >= req[p].doc.items[i].quantity
        /\ req[p].doc = Summary(CartOf(req[p].caller), TRUE)
        /\ req[p].doc # Summary(CartOf(req[p].caller), FALSE)

====
